---- MODULE Spec2Model ----
(***************************************************************************)
(* HttpService of nest-js-http-request-manager (src/lib/http.service.ts,   *)
(* held in src/src/example/example.module.ts from line 103 on): an Axios   *)
(* instance with axios-retry, a cache-manager store consulted by a pair of *)
(* interceptors, and three middleware registries run by interceptors.      *)
(*                                                                         *)
(* One logical request walks the interceptor chain Axios builds from the   *)
(* registrations of the constructor (lines 135-143). Axios runs request    *)
(* interceptors last-registered-first and response interceptors            *)
(* first-registered-first, so the chain is                                 *)
(*   request middleware (359) -> cache lookup (221) -> [axios-retry        *)
(*   request hook] -> dispatchRequest -> axios-retry response hook (176)   *)
(*   -> cache store (243) -> response / error middleware (379 / 399).      *)
(* A retry is axios-retry calling axiosInstance(config) again from inside  *)
(* its response hook: the whole chain runs once more, nested, and its      *)
(* outcome then continues through the rest of the enclosing chain.         *)
(***************************************************************************)
EXTENDS Integers, Sequences, FiniteSets, TLC

\* ------------------------------------------------------------------ bounds
\* Calls issued by the caller in one behaviour (one more where a claim is about
\* a call made after another).
MaxCalls == 1
\* Steps of the clock in one behaviour.
MaxTicks == 2
\* Middleware registered in one behaviour, over the three registries.
MaxMw == 1

\* ------------------------------------------------------- program constants
\* retries: options.retries || 3
DefaultRetries == 3
\* const ttl = options.ttl || 60000
DefaultTtl == 60000
\* ttl of the '/pokemon/.*' route rule of ExampleModule
PokemonRouteTtl == 3600000
\* a TTL a configuration sets explicitly (README: ttl: 120000)
CustomTtl == 120000
\* the TTL of a per-call cache option (README: ttl: 30000)
OverrideTtl == 30000
\* the retries of a per-call retry option (README: retries: 5)
OverrideRetries == 5

\* ------------------------------------------------------------------ values
\* A JavaScript value as far as the service looks at it: undefined, a plain
\* object (held by its JSON text) or a string. graph tells how the object is
\* built: "tree" when every object in it is referenced once, "shared" when one
\* object is referenced from two places, "bigint" when it holds a BigInt,
\* which JSON cannot write.
Undefined == [kind |-> "undefined", text |-> "", graph |-> "tree"]
Obj(json) == [kind |-> "object", text |-> json, graph |-> "tree"]
Str(s) == [kind |-> "string", text |-> s, graph |-> "tree"]
SharedObj(json) == [kind |-> "object", text |-> json, graph |-> "shared"]
BigIntObj(json) == [kind |-> "object", text |-> json, graph |-> "bigint"]

LimitParams == Obj("{\"limit\":20}")
NameBody == Obj("{\"name\":\"pikachu\"}")
\* { a: { id: 1 }, b: { id: 1 } } with two objects, and with one object that
\* both a and b refer to.
TreePair == Obj("{\"a\":{\"id\":1},\"b\":{\"id\":1}}")
SharedPair == SharedObj("{\"a\":{\"id\":1},\"b\":{\"id\":1}}")
\* { limit: 20n }
BigLimit == BigIntObj("{\"limit\":20n}")

\* config.params ? ... : '' and config.data ? ... : ''
Truthy(v) == v.kind = "object" \/ (v.kind = "string" /\ v.text # "")

\* JSON's escaping of the double quotes of a string, on the texts of the model.
Escape(s) ==
  CASE s = "{\"limit\":20}" -> "{\\\"limit\\\":20}"
    [] s = "{\"name\":\"pikachu\"}" -> "{\\\"name\\\":\\\"pikachu\\\"}"
    [] OTHER -> s

\* What getCircularReplacer() makes of an object it has seen before in the
\* same value, on the texts of the model: the second reference is replaced.
SeenReplaced(json) ==
  CASE json = "{\"a\":{\"id\":1},\"b\":{\"id\":1}}" ->
         "{\"a\":{\"id\":1},\"b\":\"[Circular Reference]\"}"
    [] OTHER -> json

\* JSON.stringify throws a TypeError on a BigInt.
StringifyThrows(v) == v.kind = "object" /\ v.graph = "bigint"

\* JSON.stringify(value, getCircularReplacer()) on acyclic values: an object
\* gives its JSON text, with a reference to an object already seen replaced;
\* a string gives the text quoted and escaped.
JSONstringify(v) ==
  CASE v.kind = "object" /\ v.graph = "shared" -> SeenReplaced(v.text)
    [] v.kind = "object" -> v.text
    [] v.kind = "string" -> "\"" \o Escape(v.text) \o "\""
    [] OTHER -> ""

\* Axios' default transformRequest, run by dispatchRequest on config.data and
\* written back to config.data: an object payload becomes its JSON string.
TransformRequest(v) == IF v.kind = "object" THEN Str(v.text) ELSE v

\* String.prototype.toLowerCase on the method names of the model.
ToLowerCase(m) ==
  CASE m = "GET" -> "get"
    [] m = "POST" -> "post"
    [] m = "PATCH" -> "patch"
    [] OTHER -> m

\* --------------------------------------------------------------- inputs
\* The per-call options of the README (cache: {ttl, strategy}, retry: {retries})
\* that a caller may put in the config of a call; ttl 0, strategy "unset" and
\* retries 0 stand for an absent field.
NoCacheOverride == [ttl |-> 0, strategy |-> "unset"]
NoRetryOverride == [retries |-> 0]

\* The calls the caller may issue: the AxiosRequestConfig handed to request().
\* headers is the Authorization header of the call, "" for none.
ReqWith(method, url, params, data, cache, retry) ==
  [method |-> method, url |-> url, params |-> params, data |-> data,
   cache |-> cache, retry |-> retry, headers |-> ""]
WithHeaders(c, headers) == [c EXCEPT !.headers = headers]
Req(method, url, params, data) ==
  ReqWith(method, url, params, data, NoCacheOverride, NoRetryOverride)
Requests ==
  { Req("get", "/pokemon/25", Undefined, Undefined),
    Req("get", "/pokemon", Undefined, Undefined),
    Req("get", "/pokemon", LimitParams, Undefined),
    Req("get", "/pokemon/25", Undefined, NameBody),
    Req("POST", "/pokemon", Undefined, NameBody),
    Req("patch", "/pokemon/25", Undefined, NameBody) }
\* README, "Configuracion por Solicitud": a call with its own retry and cache
\* options.
OverrideRequest ==
  ReqWith("get", "/pokemon/25", Undefined, Undefined,
          [ttl |-> OverrideTtl, strategy |-> "side-cache"], [retries |-> OverrideRetries])
\* Calls whose params are objects of each build.
GraphRequests ==
  { Req("get", "/pokemon", TreePair, Undefined),
    Req("get", "/pokemon", SharedPair, Undefined),
    Req("get", "/pokemon", BigLimit, Undefined) }
\* Every call of the model.
AllRequests == Requests \cup {OverrideRequest} \cup GraphRequests
\* HTTP failure statuses the transport may answer with.
Statuses == {404, 503}
\* What one transport attempt may give. The last two are a cancellation of the
\* request while the attempt is in flight: through config.signal (the
\* CanceledError carries the config) or through config.cancelToken (README,
\* "Cancelacion de Solicitudes": the token's reason, which carries no config).
Outcomes == {"ok", "status", "network", "timeout", "aborted", "cancelled"}

\* ---------------------------------------------------------- configuration
CacheStrategy == {"cache-first", "side-cache", "only-cache", "no-cache"}

Unset == [set |-> FALSE, val |-> {}]
Given(s) == [set |-> TRUE, val |-> s]

\* cache.routes[0] of ExampleModule
PokemonRoute ==
  [pattern |-> "/pokemon/.*", strategy |-> "side-cache",
   ttl |-> PokemonRouteTtl, methods |-> Given({"get"})]

\* CacheOptions; enabled = cacheOptions && this.cacheManager; ttl 0, strategy
\* "unset", shouldCache "none" and cacheKey "none" stand for an absent field.
\* shouldCache "never" is the predicate () => false, "notList" the predicate
\* (response) => response.config.url !== '/pokemon'.
CacheOpts(en, ttl, methods, strategy, routes, shouldCache) ==
  [enabled |-> en, ttl |-> ttl, methods |-> methods, strategy |-> strategy,
   routes |-> routes, shouldCache |-> shouldCache, cacheKey |-> "none",
   redis |-> FALSE]

\* options.cacheKey: "string" is a fixed key; "function" is a key function of
\* the params, (config) => 'pokemon:' + Object.entries(config.params), which
\* throws a TypeError for a config without params.
WithCacheKey(options, cacheKey) == [options EXCEPT !.cacheKey = cacheKey]

\* options.redis: HttpModule registers the Redis store when it is given, the
\* in-memory store of cache-manager when it is not.
WithRedis(options) == [options EXCEPT !.redis = TRUE]

CacheOff == CacheOpts(FALSE, 0, Unset, "unset", <<>>, "none")
CacheDefault == CacheOpts(TRUE, 0, Unset, "unset", <<>>, "none")
KeyChoices ==
  { CacheDefault,
    WithCacheKey(CacheDefault, "string"),
    WithCacheKey(CacheDefault, "function") }

CacheChoices ==
  { CacheOff,
    CacheDefault,
    CacheOpts(TRUE, CustomTtl, Given({"get", "post"}), "cache-first", <<>>, "none"),
    CacheOpts(TRUE, 0, Unset, "side-cache", <<>>, "none"),
    CacheOpts(TRUE, 0, Unset, "only-cache", <<>>, "none"),
    CacheOpts(TRUE, 0, Unset, "no-cache", <<>>, "none"),
    CacheOpts(TRUE, DefaultTtl, Given({"get"}), "cache-first", <<PokemonRoute>>, "none"),
    CacheOpts(TRUE, 0, Unset, "unset", <<>>, "never"),
    CacheOpts(TRUE, 0, Unset, "unset", <<>>, "notList") }

\* RetryOptions; enabled = !!retryOptions; retries 0 and retryCondition "none"
\* stand for an absent field. retryCondition "always" is the predicate
\* () => true, "on404" the predicate (error) => error.response?.status === 404.
RetryOpts(en, retries, codes, methods, cond) ==
  [enabled |-> en, retries |-> retries, statusCodesToRetry |-> codes,
   methodsToRetry |-> methods, retryCondition |-> cond, retryDelay |-> "none"]

\* options.retryDelay: "fixed" is retryDelay: 1000, "linear" the function
\* (retryCount) => retryCount * 1000 of the README; "none" an absent field.
WithRetryDelay(options, retryDelay) == [options EXCEPT !.retryDelay = retryDelay]

RetryOff == RetryOpts(FALSE, 0, Unset, Unset, "none")
RetryDefault == RetryOpts(TRUE, 0, Unset, Unset, "none")
\* retry of ExampleModule
RetryExample ==
  RetryOpts(TRUE, 1, Given({408, 429, 500, 502, 503, 504}),
            Given({"get", "head", "options", "delete", "put"}), "none")

RetryChoices ==
  { RetryOff,
    RetryDefault,
    RetryExample,
    RetryOpts(TRUE, 2, Unset, Unset, "none"),
    RetryOpts(TRUE, 2, Given({404}), Given({"get", "post"}), "none"),
    RetryOpts(TRUE, 1, Unset, Unset, "always"),
    RetryOpts(TRUE, 1, Unset, Unset, "on404") }

DelayChoices ==
  { RetryOpts(TRUE, 2, Unset, Unset, "none"),
    WithRetryDelay(RetryOpts(TRUE, 2, Unset, Unset, "none"), "fixed"),
    WithRetryDelay(RetryOpts(TRUE, 2, Unset, Unset, "none"), "linear") }

\* Math.random() of one call, in hundredths.
Randoms == {0, 50}

\* ------------------------------------------------------------ the state
VARIABLES
  httpModuleOptions,   \* [retry, cache]: the options the service was built with
  requestMiddlewares,  \* this.requestMiddlewares, in registration order
  responseMiddlewares, \* this.responseMiddlewares, in registration order
  errorMiddlewares,    \* this.errorMiddlewares, in registration order
  store,               \* the cache-manager store: key -> [value, ttl]
  pc,                  \* where the logical request in flight stands
  config,              \* the AxiosRequestConfig of the request in flight
  result,              \* what flows down the response chain: response or error
  depth,               \* enclosing chains waiting on a retry's nested chain
  serial,              \* responses the transport has produced so far
  calls,               \* calls the caller is still to issue
  registrations,       \* middleware registrations still to be made
  call,                \* the request as the caller issued it
  obs,                 \* what the call in flight has done so far
  prev,                \* the call completed before this one
  now,                 \* the time, in milliseconds since the service was built
  heap,                \* the data objects of the responses: heap[o] tells whether
                       \* object o has been changed since the transport gave it
  pass,                \* the middleware loop that is running, between two awaits
  other                \* this.requestMiddlewares of a second HttpService

vars == <<httpModuleOptions, requestMiddlewares, responseMiddlewares,
          errorMiddlewares, store, pc, config, result,
          depth, serial, calls, registrations, call, obs, prev, now, heap,
          pass, other>>

retryOptions == httpModuleOptions.retry
cacheOptions == httpModuleOptions.cache

NoConfig ==
  [method |-> "", url |-> "", params |-> Undefined, data |-> Undefined,
   headers |-> ""]
\* A response: data tells which answer of the transport it holds, applied how
\* many transformations by response middleware its data has been through.
\* fetched is the time the transport gave that answer, origin the call it
\* answered, obj the object response.data refers to (0: not an object).
NoResponse ==
  [data |-> 0, hasConfig |-> FALSE, config |-> NoConfig, cached |-> FALSE,
   applied |-> 0, fetched |-> 0, origin |-> NoConfig, obj |-> 0]
NoError == [kind |-> "none", status |-> 0, hasConfig |-> FALSE, method |-> "", attempt |-> 0]
NoAdapter == [set |-> FALSE, response |-> NoResponse]
\* What a resolving error middleware hands back: a plain value, no config.
Substitute ==
  [data |-> -1, hasConfig |-> FALSE, config |-> NoConfig, cached |-> FALSE,
   applied |-> 0, fetched |-> 0, origin |-> NoConfig, obj |-> 0]
\* What the chain resolves with when an error middleware returns nothing:
\* undefined.
NoValue ==
  [data |-> -2, hasConfig |-> FALSE, config |-> NoConfig, cached |-> FALSE,
   applied |-> 0, fetched |-> 0, origin |-> NoConfig, obj |-> 0]
\* A plain Error thrown by a middleware (no config, no response).
MiddlewareError == [kind |-> "middleware", status |-> 0, hasConfig |-> FALSE, method |-> "", attempt |-> 0]
\* The TypeError of reading .method of an undefined response.config.
TypeError == [kind |-> "TypeError", status |-> 0, hasConfig |-> FALSE, method |-> "", attempt |-> 0]

\* The new Error an error middleware of kind map returns for the one it is given.
MappedError == [kind |-> "mapped", status |-> 0, hasConfig |-> FALSE, method |-> "", attempt |-> 0]

\* The error a failing cacheManager.get or cacheManager.set rejects with.
StoreError == [kind |-> "store", status |-> 0, hasConfig |-> FALSE, method |-> "", attempt |-> 0]

Fulfilled(r) == [ok |-> TRUE, response |-> r, error |-> NoError]
Rejected(e) == [ok |-> FALSE, response |-> NoResponse, error |-> e]
NoResult == Fulfilled(NoResponse)

NoRequestConfig ==
  [method |-> "", url |-> "", params |-> Undefined, data |-> Undefined,
   cache |-> NoCacheOverride, retry |-> NoRetryOverride, headers |-> "",
   adapter |-> NoAdapter, retryCount |-> 0]
NoCall == Req("", "", Undefined, Undefined)
EmptyStore == [k \in {} |-> 0]
NoObs ==
  [transportCalls |-> 0, cacheReads |-> 0, cacheWrites |-> 0,
   lookup |-> "none", retriedAfter |-> "none", succeeded |-> FALSE,
   budgetCut |-> FALSE, lastError |-> NoError, resolved |-> FALSE,
   getFailed |-> FALSE, setFailed |-> FALSE, cancelled |-> "none",
   cacheKey |-> "", keyRaised |-> FALSE, timer |-> 0, storeBefore |-> EmptyStore,
   ran |-> [request |-> <<>>, response |-> <<>>, error |-> <<>>],
   passes |-> [request |-> 0, response |-> 0, error |-> 0]]
\* No middleware loop is running. A running one: the stage, the sorted copy
\* it iterates over, the ids of the entries whose process() it has called, and
\* the number of registrations made on this service when it started.
NoPass == [stage |-> "none", snapshot |-> <<>>, invoked |-> <<>>, watermark |-> 0]
NoPrev ==
  [done |-> FALSE, call |-> NoCall, ok |-> FALSE, evicted |-> FALSE,
   storeFailed |-> FALSE, cacheKey |-> ""]

\* What a registered middleware's process() does, as far as the chain sees it.
\* params: a request middleware that sets config.params = { limit: 20 };
\* stamp: a response middleware that returns the response with its data
\* transformed; mutate: one that changes response.data in place
\* (response.data.seen = true) and returns the response.
RequestMwKinds == {"pass", "throw", "params"}
ResponseMwKinds == {"pass", "throw", "stamp", "mutate"}
\* reject: Promise.reject(error), the same error; resolve: returns a substitute
\* value; wrap: throws a new Error; resolve404: returns a substitute value for
\* an HTTP 404 and Promise.reject(error) for any other error; return: returns
\* the error itself, as a value; map: returns a new Error, as a value; void:
\* returns nothing, (error) => { console.error(error.message); }.
ErrorMwKinds == {"reject", "resolve", "wrap", "resolve404", "return", "map", "void"}
Priorities == {0, 10}

\* ------------------------------------------------------------- setupRetry
\* Mutant: the configured number of retries is not read.
retries_AlwaysDefault == DefaultRetries

\* retries: options.retries || 3
retries == IF retryOptions.retries # 0 THEN retryOptions.retries ELSE DefaultRetries

\* Mutant: 404 among the default status codes.
statusCodesToRetry_With404 ==
  IF retryOptions.statusCodesToRetry.set
  THEN retryOptions.statusCodesToRetry.val
  ELSE {404, 408, 429, 500, 502, 503, 504}

\* options.statusCodesToRetry || [408, 429, 500, 502, 503, 504]
statusCodesToRetry ==
  IF retryOptions.statusCodesToRetry.set
  THEN retryOptions.statusCodesToRetry.val
  ELSE {408, 429, 500, 502, 503, 504}

\* options.methodsToRetry || ['get', 'head', 'options', 'delete', 'put']
methodsToRetry ==
  IF retryOptions.methodsToRetry.set
  THEN retryOptions.methodsToRetry.val
  ELSE {"get", "head", "options", "delete", "put"}

\* Mutant: a timeout (ECONNABORTED) counted as a network error.
isNetworkError_WithTimeout(error) == error.kind \in {"network", "timeout"}

\* axiosRetry.isNetworkError(error): no response was received and the error
\* code is neither ECONNABORTED (a timeout) nor ERR_CANCELED.
isNetworkError(error) == error.kind = "network"

\* options.retryCondition(error), for the predicates of the model.
customRetryCondition(error) ==
  CASE retryOptions.retryCondition = "always" -> TRUE
    [] retryOptions.retryCondition = "on404" ->
         error.kind = "status" /\ error.status = 404
    [] OTHER -> FALSE

\* Mutant: the status check without the method check.
retryCondition_NoMethodCheck(error) ==
  IF retryOptions.retryCondition # "none"
  THEN customRetryCondition(error)
  ELSE \/ isNetworkError(error)
       \/ /\ error.kind = "status"
          /\ error.status \in statusCodesToRetry

\* Mutant: the default checks are made even when a predicate is configured.
retryCondition_DefaultsToo(error) ==
  \/ retryOptions.retryCondition # "none" /\ customRetryCondition(error)
  \/ isNetworkError(error)
  \/ /\ error.kind = "status"
     /\ error.status \in statusCodesToRetry
     /\ error.hasConfig
     /\ ToLowerCase(error.method) \in methodsToRetry

\* The retryCondition handed to axios-retry.
retryCondition(error) ==
  IF retryOptions.retryCondition # "none"
  THEN customRetryCondition(error)
  ELSE \/ isNetworkError(error)
       \/ /\ error.kind = "status"
          /\ error.status \in statusCodesToRetry
          /\ error.hasConfig
          /\ ToLowerCase(error.method) \in methodsToRetry

\* Mutant: one retry too many.
shouldRetry_OffByOne(retryCount, error) == retryCount <= retries /\ retryCondition(error)

\* axios-retry's shouldRetry: retryCount < retries && retryCondition(error)
shouldRetry(retryCount, error) == retryCount < retries /\ retryCondition(error)

\* axiosRetry.exponentialDelay(retryNumber, error, delayFactor = 100):
\* 2 ** retryNumber * delayFactor plus up to a fifth of it, at random.
exponentialDelay(retryNumber, random) ==
  LET calculatedDelay == (2 ^ retryNumber) * 100
      randomSum == (calculatedDelay * 2 * random) \div 1000
  IN calculatedDelay + randomSum

\* retryDelay: axiosRetry.exponentialDelay (line 178)
retryDelay(retryCount, random) == exponentialDelay(retryCount, random)

\* ------------------------------------------------------------- setupCache
\* options.methods || ['get']
methods == IF cacheOptions.methods.set THEN cacheOptions.methods.val ELSE {"get"}

\* Mutant: the method check dropped.
includesMethod_Always(method) == method = method

\* methods.includes(config.method?.toLowerCase() || '')
includesMethod(method) == ToLowerCase(method) \in methods

\* options.ttl || 60000
ttl == IF cacheOptions.ttl # 0 THEN cacheOptions.ttl ELSE DefaultTtl

\* Mutant: the predicate is not asked.
shouldCacheRejects_Never(response) == response # response

\* options.shouldCache && !options.shouldCache(response) (line 251)
shouldCacheRejects(response) ==
  CASE cacheOptions.shouldCache = "never" -> TRUE
    [] cacheOptions.shouldCache = "notList" -> response.config.url = "/pokemon"
    [] OTHER -> FALSE

\* generateCacheKey raises: the key function of options.cacheKey throws.
cacheKeyThrows(c) == cacheOptions.cacheKey = "function" /\ c.params.kind = "undefined"

\* Mutant: the default key ends with the Authorization header of the config.
generateCacheKey_WithHeaders(c) ==
  IF cacheOptions.cacheKey = "string" THEN "pokemon"
  ELSE IF cacheOptions.cacheKey = "function" THEN "pokemon:" \o c.params.text
  ELSE
  LET method == IF c.method # "" THEN ToLowerCase(c.method) ELSE "get"
      caught == \/ Truthy(c.params) /\ StringifyThrows(c.params)
                \/ Truthy(c.data) /\ StringifyThrows(c.data)
      params == IF ~Truthy(c.params) THEN ""
                ELSE IF caught THEN "params-present"
                ELSE JSONstringify(c.params)
      data == IF ~Truthy(c.data) THEN ""
              ELSE IF caught THEN "data-present"
              ELSE JSONstringify(c.data)
  IN "http-cache:" \o method \o ":" \o c.url \o ":" \o params \o ":" \o data
       \o ":" \o c.headers

\* generateCacheKey: options.cacheKey when there is one (the string, or what
\* the function returns), else the default key. When one of the two
\* JSON.stringify calls throws, the catch sets both parts to their markers.
generateCacheKey(c) ==
  IF cacheOptions.cacheKey = "string" THEN "pokemon"
  ELSE IF cacheOptions.cacheKey = "function" THEN "pokemon:" \o c.params.text
  ELSE
  LET method == IF c.method # "" THEN ToLowerCase(c.method) ELSE "get"
      caught == \/ Truthy(c.params) /\ StringifyThrows(c.params)
                \/ Truthy(c.data) /\ StringifyThrows(c.data)
      params == IF ~Truthy(c.params) THEN ""
                ELSE IF caught THEN "params-present"
                ELSE JSONstringify(c.params)
      data == IF ~Truthy(c.data) THEN ""
              ELSE IF caught THEN "data-present"
              ELSE JSONstringify(c.data)
  IN "http-cache:" \o method \o ":" \o c.url \o ":" \o params \o ":" \o data

\* The copy of the response that is stored: config keeps url, method and
\* headers only.
safeResponse(response) ==
  [data |-> response.data, hasConfig |-> TRUE,
   config |-> [method |-> response.config.method, url |-> response.config.url,
               params |-> Undefined, data |-> Undefined,
               headers |-> response.config.headers],
   cached |-> FALSE, applied |-> response.applied,
   fetched |-> response.fetched, origin |-> response.origin,
   obj |-> response.obj]

\* cacheManager.set(key, value, ttl): the entry lives ttl milliseconds from now.
StoreSet(st, key, value, t) ==
  [k \in DOMAIN st \cup {key} |->
     IF k = key THEN [value |-> value, ttl |-> t, at |-> now] ELSE st[k]]

\* The copy of a data object the store makes: the in-memory store clones the
\* value before it sets it and hands the object it holds to every get, the
\* Redis store writes the value as JSON and parses it on every get.
Clone(h, o) == Append(h, IF o \in DOMAIN h THEN h[o] ELSE FALSE)
StoreGetCopies(options) == options.redis

\* cacheManager.get(key) finds an entry: the store holds one whose ttl has not
\* run out.
StoreHas(st, key) == key \in DOMAIN st /\ now - st[key].at < st[key].ttl

\* ------------------------------------------------------- setupInterceptors
\* [...list].sort((a, b) => (a.priority || 0) - (b.priority || 0)): stable.
\* Mutant: an entry goes before the entries of its own priority.
RECURSIVE Insert_TiesReversed(_, _)
Insert_TiesReversed(sorted, m) ==
  IF sorted = <<>> THEN <<m>>
  ELSE IF sorted[Len(sorted)].priority < m.priority
       THEN Append(sorted, m)
       ELSE Append(Insert_TiesReversed(SubSeq(sorted, 1, Len(sorted) - 1), m), sorted[Len(sorted)])

RECURSIVE Insert(_, _)
Insert(sorted, m) ==
  IF sorted = <<>> THEN <<m>>
  ELSE IF sorted[Len(sorted)].priority <= m.priority
       THEN Append(sorted, m)
       ELSE Append(Insert(SubSeq(sorted, 1, Len(sorted) - 1), m), sorted[Len(sorted)])

RECURSIVE sortedMiddlewares(_)
sortedMiddlewares(list) ==
  IF list = <<>> THEN <<>>
  ELSE Insert(sortedMiddlewares(SubSeq(list, 1, Len(list) - 1)), list[Len(list)])

\* Mutant: what a middleware throws is swallowed and the loop goes on.
Throws_Never(list) == list # list

\* for (const middleware of sorted) current = await middleware.process(current)
\* of the request and response interceptors: TRUE when one of them throws.
Throws(list) == \E i \in 1..Len(list) : list[i].kind = "throw"

\* The loop of the request interceptor over the sorted request middleware:
\* the config the last of them returns.
RECURSIVE RunRequestMiddlewares(_, _)
RunRequestMiddlewares(list, currentConfig) ==
  IF list = <<>> THEN currentConfig
  ELSE RunRequestMiddlewares(Tail(list),
         IF Head(list).kind = "params"
         THEN [currentConfig EXCEPT !.params = LimitParams]
         ELSE currentConfig)

\* The loop of the response interceptor over the sorted response middleware:
\* the response the last of them returns.
RECURSIVE RunResponseMiddlewares(_, _)
RunResponseMiddlewares(list, currentResponse) ==
  IF list = <<>> THEN currentResponse
  ELSE RunResponseMiddlewares(Tail(list),
         IF Head(list).kind = "stamp"
         THEN [currentResponse EXCEPT !.applied = @ + 1]
         ELSE currentResponse)

\* A response middleware that changes response.data in place is reached by the
\* loop: none before it throws.
Mutates(list) ==
  \E i \in 1..Len(list) :
    /\ list[i].kind = "mutate"
    /\ \A j \in 1..(i - 1) : list[j].kind # "throw"

\* The middleware process() is called on, in the order of the calls: the loop
\* over the sorted list ends at the first entry whose process() throws or
\* rejects (stops: the kinds that do) or, in the error stage, resolves.
RECURSIVE Invoked(_, _)
Invoked(list, stops) ==
  IF list = <<>> THEN <<>>
  ELSE IF Head(list).kind \in stops THEN <<Head(list).id>>
       ELSE <<Head(list).id>> \o Invoked(Tail(list), stops)

\* Mutant: the catch rejects with a new error that wraps the one it caught.
Caught_Wrapped(error) == [error EXCEPT !.kind = "wrapping"]

\* catch (error) { this.logger.error(...); return Promise.reject(error); } of
\* the three middleware interceptors (lines 373-376, 394-397, 417-420).
Caught(error) == error

\* Mutant: the error that leaves the chain is a new Error wrapping the cause.
RECURSIVE RunErrorMiddlewares_Wrapping(_, _)
RunErrorMiddlewares_Wrapping(list, error) ==
  IF list = <<>> THEN Rejected(MiddlewareError)
  ELSE CASE Head(list).kind = "resolve" -> Fulfilled(Substitute)
         [] Head(list).kind = "resolve404" ->
              IF error.kind = "status" /\ error.status = 404
              THEN Fulfilled(Substitute) ELSE Rejected(MiddlewareError)
         [] Head(list).kind = "wrap" -> Rejected(MiddlewareError)
         [] Head(list).kind = "reject" -> Rejected(MiddlewareError)
         [] Head(list).kind = "map" -> RunErrorMiddlewares_Wrapping(Tail(list), MappedError)
         [] Head(list).kind = "void" -> Fulfilled(NoValue)
         [] OTHER -> RunErrorMiddlewares_Wrapping(Tail(list), error)

\* The loop of the error interceptor over the sorted error middleware.
RECURSIVE RunErrorMiddlewares(_, _)
RunErrorMiddlewares(list, error) ==
  IF list = <<>> THEN Rejected(error)
  ELSE CASE Head(list).kind = "resolve" -> Fulfilled(Substitute)
         [] Head(list).kind = "resolve404" ->
              IF error.kind = "status" /\ error.status = 404
              THEN Fulfilled(Substitute) ELSE Rejected(error)
         [] Head(list).kind = "wrap" -> Rejected(Caught(MiddlewareError))
         [] Head(list).kind = "reject" -> Rejected(Caught(error))
         [] Head(list).kind = "map" -> RunErrorMiddlewares(Tail(list), MappedError)
         [] Head(list).kind = "void" -> Fulfilled(NoValue)
         [] OTHER -> RunErrorMiddlewares(Tail(list), error)

\* ------------------------------------------------------------------- Init
Init ==
  /\ httpModuleOptions \in [retry : RetryChoices, cache : CacheChoices]
  /\ requestMiddlewares = <<>>
  /\ responseMiddlewares = <<>>
  /\ errorMiddlewares = <<>>
  /\ store = EmptyStore
  /\ pc = "idle"
  /\ config = NoRequestConfig
  /\ result = NoResult
  /\ depth = 0
  /\ serial = 0
  /\ calls = MaxCalls
  /\ registrations = MaxMw
  /\ call = NoCall
  /\ obs = NoObs
  /\ prev = NoPrev
  /\ now = 0
  /\ heap = <<>>
  /\ pass = NoPass
  /\ other = <<>>

Registered == Len(requestMiddlewares) + Len(responseMiddlewares) + Len(errorMiddlewares)

\* --------------------------------------------------------------- actions
registerRequestMiddleware(priority, kind) ==
  /\ pc = "idle"
  /\ registrations > 0
  /\ registrations' = registrations - 1
  /\ requestMiddlewares' = Append(requestMiddlewares, [id |-> Registered + 1, priority |-> priority, kind |-> kind])
  /\ UNCHANGED <<pass, other, now, heap, httpModuleOptions, responseMiddlewares, errorMiddlewares, store, pc,
                 config, result, depth, serial, calls, call, obs, prev>>

registerResponseMiddleware(priority, kind) ==
  /\ pc = "idle"
  /\ registrations > 0
  /\ registrations' = registrations - 1
  /\ responseMiddlewares' = Append(responseMiddlewares, [id |-> Registered + 1, priority |-> priority, kind |-> kind])
  /\ UNCHANGED <<pass, other, now, heap, httpModuleOptions, requestMiddlewares, errorMiddlewares, store, pc,
                 config, result, depth, serial, calls, call, obs, prev>>

registerErrorMiddleware(priority, kind) ==
  /\ pc = "idle"
  /\ registrations > 0
  /\ registrations' = registrations - 1
  /\ errorMiddlewares' = Append(errorMiddlewares, [id |-> Registered + 1, priority |-> priority, kind |-> kind])
  /\ UNCHANGED <<pass, other, now, heap, httpModuleOptions, requestMiddlewares, responseMiddlewares, store, pc,
                 config, result, depth, serial, calls, call, obs, prev>>

\* request(config): Axios lower-cases the method and starts the chain.
request(c) ==
  /\ pc = "idle"
  /\ calls > 0
  /\ calls' = calls - 1
  /\ call' = [c EXCEPT !.method = ToLowerCase(@)]
  /\ config' = [method |-> ToLowerCase(c.method), url |-> c.url, params |-> c.params,
                data |-> c.data, cache |-> c.cache, retry |-> c.retry,
                headers |-> c.headers, adapter |-> NoAdapter, retryCount |-> 0]
  /\ result' = NoResult
  /\ depth' = 0
  /\ obs' = [NoObs EXCEPT !.storeBefore = store]
  /\ pc' = "requestMiddleware"
  /\ UNCHANGED <<pass, other, now, heap, httpModuleOptions, requestMiddlewares, responseMiddlewares,
                 errorMiddlewares, store, serial, registrations, prev>>

\* The end of one chain: its outcome goes to the caller, or, for the nested
\* chain of a retry, on through the enclosing chain after its retry hook.
Settle(r) ==
  /\ result' = r
  /\ IF depth = 0
     THEN /\ pc' = "done"
          /\ depth' = depth
     ELSE /\ pc' = IF r.ok THEN "cacheResponse" ELSE "errorMiddleware"
          /\ depth' = depth - 1

\* The request interceptor of the middleware (lines 359-377), over the sorted
\* copy of the registry its loop iterates.
RequestMiddlewareInterceptorOver(sorted) ==
  /\ pc = "requestMiddleware"
  /\ IF Throws(sorted)
     THEN /\ result' = Rejected(Caught(MiddlewareError))
          /\ pc' = "retryResponse"
          /\ config' = config
     ELSE /\ result' = result
          /\ pc' = "cacheRequest"
          /\ config' = RunRequestMiddlewares(sorted, config)
  /\ obs' = [obs EXCEPT !.ran.request = Invoked(sorted, {"throw"}),
                        !.passes.request = @ + 1]
  /\ UNCHANGED <<other, now, heap, httpModuleOptions, requestMiddlewares, responseMiddlewares,
                 errorMiddlewares, store, depth, serial, calls,
                 registrations, call, prev>>

\* The interceptor when nothing happens between the awaits of its loop.
RequestMiddlewareInterceptor ==
  /\ pass = NoPass
  /\ RequestMiddlewareInterceptorOver(sortedMiddlewares(requestMiddlewares))
  /\ pass' = pass

\* The request interceptor of the cache (lines 221-240). getFails: the store
\* rejects the read (await this.cacheManager.get, outside any try); a rejected
\* request interceptor skips the transport and goes down the rejected side.
CacheRequestInterceptor(getFails) ==
  /\ pc = "cacheRequest"
  /\ IF ~cacheOptions.enabled \/ ~includesMethod(config.method)
     THEN /\ pc' = "dispatch"
          /\ UNCHANGED <<config, obs, result, heap>>
     ELSE IF cacheKeyThrows(config)
     THEN /\ pc' = "retryResponse"
          /\ result' = Rejected(TypeError)
          /\ obs' = [obs EXCEPT !.keyRaised = TRUE]
          /\ UNCHANGED <<config, heap>>
     ELSE IF getFails
     THEN /\ pc' = "retryResponse"
          /\ result' = Rejected(StoreError)
          /\ obs' = [obs EXCEPT !.cacheReads = @ + 1, !.getFailed = TRUE]
          /\ UNCHANGED <<config, heap>>
     ELSE LET cacheKey == generateCacheKey(config)
              hit == StoreHas(store, cacheKey)
              copies == hit /\ StoreGetCopies(cacheOptions)
          IN /\ config' = IF hit
                          THEN [config EXCEPT !.adapter =
                                  [set |-> TRUE,
                                   response |-> IF copies
                                                THEN [store[cacheKey].value
                                                        EXCEPT !.obj = Len(heap) + 1]
                                                ELSE store[cacheKey].value]]
                          ELSE config
             /\ heap' = IF copies THEN Clone(heap, store[cacheKey].value.obj)
                        ELSE heap
             /\ obs' = [obs EXCEPT !.cacheReads = @ + 1,
                                   !.lookup = IF @ = "none"
                                              THEN (IF hit THEN "hit" ELSE "miss")
                                              ELSE @,
                                   !.cacheKey = IF @ = "" THEN cacheKey ELSE @]
             /\ pc' = "dispatch"
             /\ result' = result
  /\ UNCHANGED <<pass, other, now, httpModuleOptions, requestMiddlewares, responseMiddlewares,
                 errorMiddlewares, store, depth, serial, calls, registrations,
                 call, prev>>

\* Mutant: a request already cancelled is dispatched all the same.
throwIfCancellationRequested_Never(cancelled) == cancelled # cancelled

\* Axios' throwIfCancellationRequested(config), the first step of
\* dispatchRequest: a request whose signal is aborted or whose token is
\* cancelled is rejected before the adapter is called.
throwIfCancellationRequested(cancelled) == cancelled # "none"

\* The CanceledError of the request in flight.
CanceledError(how, attempt) ==
  [kind |-> "cancelled", status |-> 0, hasConfig |-> (how = "aborted"),
   method |-> config.method, attempt |-> attempt]

\* Axios' dispatchRequest: the cancellation check, transformRequest, then
\* config.adapter when the cache interceptor set one, else the transport,
\* whose outcome is the environment's.
DispatchRequest(outcome, status) ==
  /\ pc = "dispatch"
  /\ IF throwIfCancellationRequested(obs.cancelled)
     THEN /\ result' = Rejected(CanceledError(obs.cancelled, obs.transportCalls))
          /\ UNCHANGED <<serial, obs, config>>
     ELSE /\ config' = [config EXCEPT !.data = TransformRequest(@)]
          /\ IF config.adapter.set
             THEN /\ result' = Fulfilled([config.adapter.response EXCEPT !.cached = TRUE])
                  /\ UNCHANGED <<serial, obs>>
             ELSE IF outcome = "ok"
             THEN /\ serial' = serial + 1
                  /\ result' = Fulfilled(
                       [data |-> serial + 1, hasConfig |-> TRUE,
                        config |-> [method |-> config.method, url |-> config.url,
                                    params |-> config.params,
                                    data |-> TransformRequest(config.data),
                                    headers |-> config.headers],
                        cached |-> FALSE, applied |-> 0, fetched |-> now,
                        origin |-> [method |-> call.method, url |-> call.url,
                                    params |-> call.params, data |-> call.data,
                                    headers |-> call.headers],
                        obj |-> Len(heap) + 1])
                  /\ obs' = [obs EXCEPT !.transportCalls = @ + 1, !.succeeded = TRUE]
             ELSE IF outcome \in {"aborted", "cancelled"}
             THEN LET error == CanceledError(outcome, obs.transportCalls + 1)
                  IN /\ result' = Rejected(error)
                     /\ obs' = [obs EXCEPT !.transportCalls = @ + 1,
                                           !.lastError = error,
                                           !.cancelled = outcome]
                     /\ serial' = serial
             ELSE LET error == [kind |-> outcome,
                                status |-> IF outcome = "status" THEN status ELSE 0,
                                hasConfig |-> TRUE, method |-> config.method,
                                attempt |-> obs.transportCalls + 1]
                  IN /\ result' = Rejected(error)
                     /\ obs' = [obs EXCEPT !.transportCalls = @ + 1,
                                           !.lastError = error]
                     /\ serial' = serial
  /\ heap' = IF /\ ~throwIfCancellationRequested(obs.cancelled)
                /\ ~config.adapter.set
                /\ outcome = "ok"
             THEN Append(heap, FALSE) ELSE heap
  /\ pc' = "retryResponse"
  /\ UNCHANGED <<pass, other, now, httpModuleOptions, requestMiddlewares, responseMiddlewares,
                 errorMiddlewares, store, depth, calls, registrations, call, prev>>

\* The response hook of axios-retry (registered by setupRetry, lines 176-209).
\* budgetLeft: handleRetry gives up when config.timeout minus the time spent
\* and the delay is not positive; time is the environment's. The retry is
\* made when the timer of the delay fires, at once for an aborted signal.
RetryResponseInterceptor(budgetLeft, random) ==
  /\ pc = "retryResponse"
  /\ IF result.ok
     THEN /\ pc' = "cacheResponse"
          /\ UNCHANGED <<config, depth, obs>>
     ELSE IF \/ ~retryOptions.enabled
             \/ ~result.error.hasConfig
             \/ ~shouldRetry(config.retryCount, result.error)
     THEN /\ pc' = "errorMiddleware"
          /\ UNCHANGED <<config, depth, obs>>
     ELSE /\ config' = [config EXCEPT !.retryCount = @ + 1]
          /\ IF budgetLeft
             THEN /\ depth' = depth + 1
                  /\ IF obs.cancelled = "aborted"
                     THEN /\ pc' = "requestMiddleware"
                          /\ obs' = [obs EXCEPT !.retriedAfter = result.error.kind]
                     ELSE /\ pc' = "retryDelay"
                          /\ obs' = [obs EXCEPT
                                      !.retriedAfter = result.error.kind,
                                      !.timer = retryDelay(config.retryCount + 1, random)]
             ELSE /\ pc' = "errorMiddleware"
                  /\ depth' = depth
                  /\ obs' = [obs EXCEPT !.budgetCut = TRUE]
  /\ UNCHANGED <<pass, other, now, heap, httpModuleOptions, requestMiddlewares, responseMiddlewares,
                 errorMiddlewares, store, result, serial, calls, registrations, call, prev>>

\* setTimeout(() => resolve(axiosInstance(config)), delay) of axios-retry: the
\* timer of the delay fires and the chain runs again.
RetryTimer ==
  /\ pc = "retryDelay"
  /\ pc' = "requestMiddleware"
  /\ obs' = [obs EXCEPT !.timer = 0]
  /\ UNCHANGED <<pass, other, now, heap, httpModuleOptions, requestMiddlewares, responseMiddlewares,
                 errorMiddlewares, store, config, result, depth, serial, calls,
                 registrations, call, prev>>

\* The response interceptor of the cache (lines 243-283). setFails: the store
\* rejects the write, which the try / catch of lines 258-280 absorbs.
CacheResponseInterceptor(setFails) ==
  /\ pc = "cacheResponse"
  /\ IF ~cacheOptions.enabled
     THEN /\ pc' = "responseMiddleware"
          /\ UNCHANGED <<store, result, obs, heap>>
     ELSE IF ~result.response.hasConfig
     THEN /\ pc' = "errorMiddleware"
          /\ result' = Rejected(TypeError)
          /\ UNCHANGED <<store, obs, heap>>
     ELSE IF \/ ~includesMethod(result.response.config.method)
             \/ shouldCacheRejects(result.response)
     THEN /\ pc' = "responseMiddleware"
          /\ UNCHANGED <<store, result, obs, heap>>
     ELSE IF cacheKeyThrows(result.response.config)
     THEN /\ pc' = "errorMiddleware"
          /\ result' = Rejected(TypeError)
          /\ obs' = [obs EXCEPT !.keyRaised = TRUE]
          /\ UNCHANGED <<store, heap>>
     ELSE IF setFails
     THEN /\ UNCHANGED <<store, heap>>
          /\ obs' = [obs EXCEPT !.cacheWrites = @ + 1, !.setFailed = TRUE]
          /\ pc' = "responseMiddleware"
          /\ result' = result
     ELSE /\ store' = StoreSet(store, generateCacheKey(result.response.config),
                               [safeResponse(result.response)
                                  EXCEPT !.obj = Len(heap) + 1], ttl)
          /\ heap' = Clone(heap, result.response.obj)
          /\ obs' = [obs EXCEPT !.cacheWrites = @ + 1]
          /\ pc' = "responseMiddleware"
          /\ result' = result
  /\ UNCHANGED <<pass, other, now, httpModuleOptions, requestMiddlewares, responseMiddlewares,
                 errorMiddlewares, config, depth, serial, calls, registrations, call, prev>>

\* The fulfilled side of the middleware response interceptor (lines 380-398),
\* over the sorted copy of the registry its loop iterates.
ResponseMiddlewareInterceptorOver(sorted) ==
  /\ pc = "responseMiddleware"
  /\ IF Throws(sorted)
     THEN Settle(Rejected(Caught(MiddlewareError)))
     ELSE Settle(Fulfilled(RunResponseMiddlewares(sorted, result.response)))
  /\ obs' = [obs EXCEPT !.ran.response = Invoked(sorted, {"throw"}),
                        !.passes.response = @ + 1]
  /\ heap' = IF /\ Mutates(sorted)
                /\ result.response.obj \in DOMAIN heap
             THEN [heap EXCEPT ![result.response.obj] = TRUE] ELSE heap
  /\ UNCHANGED <<other, now, httpModuleOptions, requestMiddlewares, responseMiddlewares,
                 errorMiddlewares, store, config, serial, calls, registrations,
                 call, prev>>

\* The interceptor when nothing happens between the awaits of its loop.
ResponseMiddlewareInterceptor ==
  /\ pass = NoPass
  /\ ResponseMiddlewareInterceptorOver(sortedMiddlewares(responseMiddlewares))
  /\ pass' = pass

\* The rejected side of the middleware response interceptor (lines 399-421),
\* over the sorted copy of the registry its loop iterates.
ErrorMiddlewareInterceptorOver(sorted) ==
  /\ pc = "errorMiddleware"
  /\ LET r == RunErrorMiddlewares(sorted, result.error)
     IN /\ Settle(r)
        /\ obs' = [obs EXCEPT !.resolved = @ \/ r.ok,
                              !.ran.error =
                                Invoked(sorted, ErrorMwKinds \ {"return", "map"}),
                              !.passes.error = @ + 1]
  /\ UNCHANGED <<other, now, heap, httpModuleOptions, requestMiddlewares, responseMiddlewares,
                 errorMiddlewares, store, config, serial, calls, registrations, call, prev>>

\* The interceptor when nothing happens between the awaits of its loop.
ErrorMiddlewareInterceptor ==
  /\ pass = NoPass
  /\ ErrorMiddlewareInterceptorOver(sortedMiddlewares(errorMiddlewares))
  /\ pass' = pass

\* The registry a stage reads.
Registry(stage) ==
  CASE stage = "request" -> requestMiddlewares
    [] stage = "response" -> responseMiddlewares
    [] stage = "error" -> errorMiddlewares
    [] OTHER -> <<>>

\* The kinds whose process() ends the loop of a stage: a throw or a rejection
\* and, in the error stage, a value that is not an Error.
Stops(stage) == IF stage = "error" THEN ErrorMwKinds \ {"return", "map"} ELSE {"throw"}

\* Mutant: the loop iterates the registry itself, sorted, not a copy of it.
Iterated_Registry(p) == sortedMiddlewares(Registry(p.stage))

\* const sortedMiddlewares = [...this.requestMiddlewares].sort(...): what the
\* for loop of a running pass iterates (lines 364-365, 385-386, 404-405).
Iterated(p) == p.snapshot

\* The loop of the running pass has ended: at the end of its list, or at an
\* entry whose process() ended it.
PassEnded ==
  \/ Len(pass.invoked) >= Len(Iterated(pass))
  \/ /\ pass.invoked # <<>>
     /\ \E i \in 1..Len(Iterated(pass)) :
          /\ Iterated(pass)[i].id = pass.invoked[Len(pass.invoked)]
          /\ Iterated(pass)[i].kind \in Stops(pass.stage)

\* A middleware interceptor is entered: it sorts a copy of its registry.
StartPass ==
  /\ pass = NoPass
  /\ pc \in {"requestMiddleware", "responseMiddleware", "errorMiddleware"}
  /\ LET stage == CASE pc = "requestMiddleware" -> "request"
                     [] pc = "responseMiddleware" -> "response"
                     [] OTHER -> "error"
     IN pass' = [stage |-> stage, snapshot |-> sortedMiddlewares(Registry(stage)),
                 invoked |-> <<>>, watermark |-> Registered]
  /\ UNCHANGED <<other, now, heap, httpModuleOptions, requestMiddlewares,
                 responseMiddlewares, errorMiddlewares, store, pc, config, result,
                 depth, serial, calls, registrations, call, obs, prev>>

\* current = await middleware.process(current): one turn of the loop.
ProcessMiddleware ==
  /\ pass # NoPass
  /\ ~PassEnded
  /\ pass' = [pass EXCEPT !.invoked =
                Append(@, Iterated(pass)[Len(pass.invoked) + 1].id)]
  /\ UNCHANGED <<other, now, heap, httpModuleOptions, requestMiddlewares,
                 responseMiddlewares, errorMiddlewares, store, pc, config, result,
                 depth, serial, calls, registrations, call, obs, prev>>

\* The loop has ended and the interceptor returns or rejects.
FinishPass ==
  /\ pass # NoPass
  /\ PassEnded
  /\ pass' = NoPass
  /\ \/ pass.stage = "request" /\ RequestMiddlewareInterceptorOver(Iterated(pass))
     \/ pass.stage = "response" /\ ResponseMiddlewareInterceptorOver(Iterated(pass))
     \/ pass.stage = "error" /\ ErrorMiddlewareInterceptorOver(Iterated(pass))

\* register...Middleware(middleware) called while a request is in flight,
\* between two awaits of the chain.
registerInFlight(stage, priority, kind) ==
  /\ pc \notin {"idle", "done"}
  /\ registrations > 0
  /\ registrations' = registrations - 1
  /\ LET entry == [id |-> Registered + 1, priority |-> priority, kind |-> kind]
     IN /\ requestMiddlewares' =
             IF stage = "request" THEN Append(requestMiddlewares, entry)
             ELSE requestMiddlewares
        /\ responseMiddlewares' =
             IF stage = "response" THEN Append(responseMiddlewares, entry)
             ELSE responseMiddlewares
        /\ errorMiddlewares' =
             IF stage = "error" THEN Append(errorMiddlewares, entry)
             ELSE errorMiddlewares
  /\ UNCHANGED <<pass, other, now, heap, httpModuleOptions, store, pc, config,
                 result, depth, serial, calls, call, obs, prev>>

\* registerRequestMiddleware(middleware) called on a second HttpService.
registerOnOther(priority, kind) ==
  /\ registrations > 0
  /\ registrations' = registrations - 1
  /\ other' = Append(other, [id |-> Len(other) + 1, priority |-> priority, kind |-> kind])
  /\ UNCHANGED <<pass, now, heap, httpModuleOptions, requestMiddlewares,
                 responseMiddlewares, errorMiddlewares, store, pc, config, result,
                 depth, serial, calls, call, obs, prev>>

\* The promise of request() settles: the caller has its response or error.
Complete ==
  /\ pc = "done"
  /\ pc' = "idle"
  /\ prev' = [done |-> TRUE, call |-> call,
              ok |-> result.ok /\ ~obs.resolved, evicted |-> FALSE,
              storeFailed |-> obs.getFailed \/ obs.setFailed,
              cacheKey |-> obs.cacheKey]
  /\ config' = NoRequestConfig
  /\ result' = NoResult
  /\ call' = NoCall
  /\ obs' = NoObs
  /\ UNCHANGED <<pass, other, now, heap, httpModuleOptions, requestMiddlewares, responseMiddlewares,
                 errorMiddlewares, store, depth, serial, calls, registrations>>

\* The caller changes the data of the response it was given, in place.
CallerChangesData ==
  /\ pc = "done"
  /\ result.ok
  /\ result.response.obj \in DOMAIN heap
  /\ ~heap[result.response.obj]
  /\ heap' = [heap EXCEPT ![result.response.obj] = TRUE]
  /\ UNCHANGED <<pass, other, now, httpModuleOptions, requestMiddlewares, responseMiddlewares,
                 errorMiddlewares, store, pc, config, result, depth, serial,
                 calls, registrations, call, obs, prev>>

\* The store drops an entry: its TTL ran out (or the store evicted it).
Expire(key) ==
  /\ pc = "idle"
  /\ key \in DOMAIN store
  /\ store' = [k \in DOMAIN store \ {key} |-> store[k]]
  /\ prev' = [prev EXCEPT !.evicted = TRUE]
  /\ UNCHANGED <<pass, other, now, heap, httpModuleOptions, requestMiddlewares, responseMiddlewares,
                 errorMiddlewares, pc, config, result, depth, serial, calls, registrations,
                 call, obs>>

\* Time passes between two calls: three quarters of the default TTL.
Tick ==
  /\ pc = "idle"
  /\ now < MaxTicks * ((3 * DefaultTtl) \div 4)
  /\ now' = now + (3 * DefaultTtl) \div 4
  /\ UNCHANGED <<pass, other, heap, httpModuleOptions, requestMiddlewares, responseMiddlewares,
                 errorMiddlewares, store, pc, config, result, depth, serial,
                 calls, registrations, call, obs, prev>>

Next ==
  \/ \E p \in Priorities, k \in RequestMwKinds : registerRequestMiddleware(p, k)
  \/ \E p \in Priorities, k \in ResponseMwKinds : registerResponseMiddleware(p, k)
  \/ \E p \in Priorities, k \in ErrorMwKinds : registerErrorMiddleware(p, k)
  \/ \E r \in AllRequests : request(r)
  \/ RequestMiddlewareInterceptor
  \/ \E f \in BOOLEAN : CacheRequestInterceptor(f)
  \/ \E o \in Outcomes, s \in Statuses : DispatchRequest(o, s)
  \/ \E b \in BOOLEAN, r \in Randoms : RetryResponseInterceptor(b, r)
  \/ RetryTimer
  \/ \E f \in BOOLEAN : CacheResponseInterceptor(f)
  \/ ResponseMiddlewareInterceptor
  \/ ErrorMiddlewareInterceptor
  \/ Complete
  \/ CallerChangesData
  \/ \E k \in DOMAIN store : Expire(k)
  \/ Tick
  \/ StartPass
  \/ ProcessMiddleware
  \/ FinishPass
  \/ \E g \in {"request", "response"}, p \in Priorities, k \in {"pass", "throw"} :
        registerInFlight(g, p, k)
  \/ \E p \in Priorities, k \in {"return", "reject"} : registerInFlight("error", p, k)
  \/ \E p \in Priorities, k \in {"pass", "throw"} : registerOnOther(p, k)

Spec == Init /\ [][Next]_vars

\* The service with error middleware only and, between two calls, no entry of
\* the store running out: what the retry and method-gating claims are about.
NextErrorOnly ==
  \/ \E p \in Priorities, k \in {"reject", "resolve", "wrap"} :
        registerErrorMiddleware(p, k)
  \/ \E r \in Requests : request(r)
  \/ RequestMiddlewareInterceptor
  \/ \E f \in BOOLEAN : CacheRequestInterceptor(f)
  \/ \E o \in Outcomes, s \in Statuses : DispatchRequest(o, s)
  \/ \E b \in BOOLEAN, r \in Randoms : RetryResponseInterceptor(b, r)
  \/ RetryTimer
  \/ \E f \in BOOLEAN : CacheResponseInterceptor(f)
  \/ ResponseMiddlewareInterceptor
  \/ ErrorMiddlewareInterceptor
  \/ Complete

\* Every retry configuration, over the default cache configuration.
InitRetry == Init /\ httpModuleOptions.cache = CacheDefault
SpecRetry == InitRetry /\ [][NextErrorOnly]_vars

\* Every cache configuration, under the retry configuration of ExampleModule.
InitMethods == Init /\ httpModuleOptions.retry = RetryExample
SpecMethods == InitMethods /\ [][NextErrorOnly]_vars

\* A request in flight goes on: the event loop runs every continuation of the
\* promise chain, and the transport answers, fails or runs into the timeout
\* (timeout: options.timeout || 10000, line 154).
ChainStep ==
  \/ RequestMiddlewareInterceptor
  \/ \E f \in BOOLEAN : CacheRequestInterceptor(f)
  \/ \E o \in Outcomes, s \in Statuses : DispatchRequest(o, s)
  \/ \E b \in BOOLEAN, r \in Randoms : RetryResponseInterceptor(b, r)
  \/ RetryTimer
  \/ \E f \in BOOLEAN : CacheResponseInterceptor(f)
  \/ ResponseMiddlewareInterceptor
  \/ ErrorMiddlewareInterceptor
NextTermination ==
  \/ registerErrorMiddleware(0, "resolve")
  \/ \E r \in Requests : request(r)
  \/ ChainStep
  \/ Complete
SpecTermination == InitRetry /\ [][NextTermination]_vars /\ WF_vars(ChainStep)

\* The middleware stages: a service without cache, under the retry
\* configuration of ExampleModule, on which up to two middleware more are
\* registered, each passing on what it is given.
OrderRequest == Req("get", "/pokemon/25", Undefined, Undefined)
NextOrder ==
  \/ \E p \in Priorities, k \in {"pass", "throw"} : registerRequestMiddleware(p, k)
  \/ \E p \in Priorities : registerResponseMiddleware(p, "pass")
  \/ \E p \in Priorities : registerErrorMiddleware(p, "return")
  \/ request(OrderRequest)
  \/ RequestMiddlewareInterceptor
  \/ \E f \in BOOLEAN : CacheRequestInterceptor(f)
  \/ \E o \in Outcomes, s \in Statuses : DispatchRequest(o, s)
  \/ \E b \in BOOLEAN, r \in Randoms : RetryResponseInterceptor(b, r)
  \/ RetryTimer
  \/ \E f \in BOOLEAN : CacheResponseInterceptor(f)
  \/ ResponseMiddlewareInterceptor
  \/ ErrorMiddlewareInterceptor
  \/ Complete
InitOrder ==
  /\ httpModuleOptions = [retry |-> RetryExample, cache |-> CacheOff]
  /\ requestMiddlewares = <<>>
  /\ responseMiddlewares = <<>>
  /\ errorMiddlewares = <<>>
  /\ store = EmptyStore
  /\ pc = "idle"
  /\ config = NoRequestConfig
  /\ result = NoResult
  /\ depth = 0
  /\ serial = 0
  /\ calls = MaxCalls
  /\ registrations = MaxMw + 2
  /\ call = NoCall
  /\ obs = NoObs
  /\ prev = NoPrev
  /\ now = 0
  /\ heap = <<>>
  /\ pass = NoPass
  /\ other = <<>>
SpecOrder == InitOrder /\ [][NextOrder]_vars

\* The failures of the middleware: a service without cache, under the retry
\* configuration of ExampleModule, with two middleware of any stage and kind.
NextStages ==
  \/ \E p \in Priorities, k \in {"pass", "throw"} : registerRequestMiddleware(p, k)
  \/ \E p \in Priorities, k \in {"pass", "throw"} : registerResponseMiddleware(p, k)
  \/ \E p \in Priorities, k \in {"reject", "resolve", "wrap", "return", "map"} :
        registerErrorMiddleware(p, k)
  \/ request(OrderRequest)
  \/ ChainStep
  \/ Complete
InitStages ==
  /\ httpModuleOptions = [retry |-> RetryExample, cache |-> CacheOff]
  /\ requestMiddlewares = <<>>
  /\ responseMiddlewares = <<>>
  /\ errorMiddlewares = <<>>
  /\ store = EmptyStore
  /\ pc = "idle"
  /\ config = NoRequestConfig
  /\ result = NoResult
  /\ depth = 0
  /\ serial = 0
  /\ calls = MaxCalls
  /\ registrations = MaxMw + 1
  /\ call = NoCall
  /\ obs = NoObs
  /\ prev = NoPrev
  /\ now = 0
  /\ heap = <<>>
  /\ pass = NoPass
  /\ other = <<>>
SpecStages == InitStages /\ [][NextStages]_vars

\* Every cache configuration, under the retry configuration of ExampleModule,
\* with a caller that issues one call after another.
InitCache ==
  /\ httpModuleOptions \in [retry : {RetryExample}, cache : CacheChoices]
  /\ requestMiddlewares = <<>>
  /\ responseMiddlewares = <<>>
  /\ errorMiddlewares = <<>>
  /\ store = EmptyStore
  /\ pc = "idle"
  /\ config = NoRequestConfig
  /\ result = NoResult
  /\ depth = 0
  /\ serial = 0
  /\ calls = MaxCalls + 1
  /\ registrations = MaxMw
  /\ call = NoCall
  /\ obs = NoObs
  /\ prev = NoPrev
  /\ now = 0
  /\ heap = <<>>
  /\ pass = NoPass
  /\ other = <<>>
NextCache ==
  \/ \E p \in Priorities, k \in {"pass", "throw"} : registerRequestMiddleware(p, k)
  \/ \E p \in Priorities, k \in {"pass", "throw"} : registerResponseMiddleware(p, k)
  \/ \E p \in Priorities, k \in ErrorMwKinds : registerErrorMiddleware(p, k)
  \/ \E r \in Requests \cup {OverrideRequest} : request(r)
  \/ ChainStep
  \/ Complete
  \/ \E k \in DOMAIN store : Expire(k)
SpecCache == InitCache /\ [][NextCache]_vars

\* The keys of the cache: calls whose params are objects of each build, one
\* after another, on a service without middleware.
InitKeys ==
  /\ httpModuleOptions \in [retry : {RetryExample}, cache : KeyChoices]
  /\ requestMiddlewares = <<>>
  /\ responseMiddlewares = <<>>
  /\ errorMiddlewares = <<>>
  /\ store = EmptyStore
  /\ pc = "idle"
  /\ config = NoRequestConfig
  /\ result = NoResult
  /\ depth = 0
  /\ serial = 0
  /\ calls = MaxCalls + 1
  /\ registrations = MaxMw
  /\ call = NoCall
  /\ obs = NoObs
  /\ prev = NoPrev
  /\ now = 0
  /\ heap = <<>>
  /\ pass = NoPass
  /\ other = <<>>
NextKeys ==
  \/ \E r \in GraphRequests \cup {Req("get", "/pokemon", Undefined, Undefined)} :
        request(r)
  \/ ChainStep
  \/ Complete
  \/ \E k \in DOMAIN store : Expire(k)
SpecKeys == InitKeys /\ [][NextKeys]_vars

\* The flow of a request and of its response through the stages: a service
\* with the default cache, under the retry configuration of ExampleModule, on
\* which one middleware more is registered, each changing what it is given.
FlowRequests ==
  { Req("get", "/pokemon", Undefined, Undefined),
    Req("get", "/pokemon", LimitParams, Undefined) }
InitFlow ==
  /\ httpModuleOptions = [retry |-> RetryExample, cache |-> CacheDefault]
  /\ requestMiddlewares = <<>>
  /\ responseMiddlewares = <<>>
  /\ errorMiddlewares = <<>>
  /\ store = EmptyStore
  /\ pc = "idle"
  /\ config = NoRequestConfig
  /\ result = NoResult
  /\ depth = 0
  /\ serial = 0
  /\ calls = MaxCalls + 1
  /\ registrations = MaxMw + 1
  /\ call = NoCall
  /\ obs = NoObs
  /\ prev = NoPrev
  /\ now = 0
  /\ heap = <<>>
  /\ pass = NoPass
  /\ other = <<>>
NextFlow ==
  \/ \E p \in Priorities : registerRequestMiddleware(p, "params")
  \/ \E p \in Priorities : registerResponseMiddleware(p, "stamp")
  \/ \E r \in FlowRequests : request(r)
  \/ ChainStep
  \/ Complete
SpecFlow == InitFlow /\ [][NextFlow]_vars

\* The lifetime of the entries: a service with the default cache, under the
\* retry configuration of ExampleModule and without middleware, with a caller
\* that issues three calls while time passes.
InitLifetime ==
  /\ httpModuleOptions = [retry |-> RetryExample, cache |-> CacheDefault]
  /\ requestMiddlewares = <<>>
  /\ responseMiddlewares = <<>>
  /\ errorMiddlewares = <<>>
  /\ store = EmptyStore
  /\ pc = "idle"
  /\ config = NoRequestConfig
  /\ result = NoResult
  /\ depth = 0
  /\ serial = 0
  /\ calls = MaxCalls + 2
  /\ registrations = MaxMw
  /\ call = NoCall
  /\ obs = NoObs
  /\ prev = NoPrev
  /\ now = 0
  /\ heap = <<>>
  /\ pass = NoPass
  /\ other = <<>>
NextLifetime ==
  \/ \E r \in FlowRequests : request(r)
  \/ ChainStep
  \/ Complete
  \/ Tick
SpecLifetime == InitLifetime /\ [][NextLifetime]_vars

\* The objects of the cached responses: a service with the default cache, on
\* the in-memory store or on Redis, under the retry configuration of
\* ExampleModule, with response middleware that changes the data in place and
\* a caller that does so too, over three calls.
InitSnapshot ==
  /\ httpModuleOptions \in [retry : {RetryExample},
                            cache : {CacheDefault, WithRedis(CacheDefault)}]
  /\ requestMiddlewares = <<>>
  /\ responseMiddlewares = <<>>
  /\ errorMiddlewares = <<>>
  /\ store = EmptyStore
  /\ pc = "idle"
  /\ config = NoRequestConfig
  /\ result = NoResult
  /\ depth = 0
  /\ serial = 0
  /\ calls = MaxCalls + 2
  /\ registrations = MaxMw
  /\ call = NoCall
  /\ obs = NoObs
  /\ prev = NoPrev
  /\ now = 0
  /\ heap = <<>>
  /\ pass = NoPass
  /\ other = <<>>
NextSnapshot ==
  \/ \E p \in Priorities : registerResponseMiddleware(p, "mutate")
  \/ \E r \in FlowRequests : request(r)
  \/ ChainStep
  \/ Complete
  \/ CallerChangesData
SpecSnapshot == InitSnapshot /\ [][NextSnapshot]_vars

\* Callers with different credentials: a service with the default cache, under
\* the retry configuration of ExampleModule and without middleware, whose
\* calls carry one of two Authorization headers.
Authorizations == {"Bearer A", "Bearer B"}
HeaderRequests ==
  { WithHeaders(r, h) :
      r \in { Req("get", "/pokemon", LimitParams, Undefined),
              Req("get", "/pokemon/25", Undefined, NameBody) },
      h \in Authorizations }
InitHeaders ==
  /\ httpModuleOptions = [retry |-> RetryExample, cache |-> CacheDefault]
  /\ requestMiddlewares = <<>>
  /\ responseMiddlewares = <<>>
  /\ errorMiddlewares = <<>>
  /\ store = EmptyStore
  /\ pc = "idle"
  /\ config = NoRequestConfig
  /\ result = NoResult
  /\ depth = 0
  /\ serial = 0
  /\ calls = MaxCalls + 1
  /\ registrations = MaxMw
  /\ call = NoCall
  /\ obs = NoObs
  /\ prev = NoPrev
  /\ now = 0
  /\ heap = <<>>
  /\ pass = NoPass
  /\ other = <<>>
NextHeaders ==
  \/ \E r \in HeaderRequests : request(r)
  \/ ChainStep
  \/ Complete
SpecHeaders == InitHeaders /\ [][NextHeaders]_vars

\* The outcome of a failed request: a service without cache, under the retry
\* configuration of ExampleModule, with error middleware that rejects, throws,
\* resolves with a substitute or returns nothing.
InitOutcome ==
  /\ httpModuleOptions = [retry |-> RetryExample, cache |-> CacheOff]
  /\ requestMiddlewares = <<>>
  /\ responseMiddlewares = <<>>
  /\ errorMiddlewares = <<>>
  /\ store = EmptyStore
  /\ pc = "idle"
  /\ config = NoRequestConfig
  /\ result = NoResult
  /\ depth = 0
  /\ serial = 0
  /\ calls = MaxCalls
  /\ registrations = MaxMw + 1
  /\ call = NoCall
  /\ obs = NoObs
  /\ prev = NoPrev
  /\ now = 0
  /\ heap = <<>>
  /\ pass = NoPass
  /\ other = <<>>
NextOutcome ==
  \/ \E p \in Priorities, k \in {"reject", "wrap", "resolve", "void"} :
        registerErrorMiddleware(p, k)
  \/ request(OrderRequest)
  \/ ChainStep
  \/ Complete
SpecOutcome == InitOutcome /\ [][NextOutcome]_vars

\* A request middleware that raises: a service with the default cache, under
\* the retry configuration of ExampleModule, on which request and error
\* middleware are registered between two calls.
InitRaise ==
  /\ httpModuleOptions = [retry |-> RetryExample, cache |-> CacheDefault]
  /\ requestMiddlewares = <<>>
  /\ responseMiddlewares = <<>>
  /\ errorMiddlewares = <<>>
  /\ store = EmptyStore
  /\ pc = "idle"
  /\ config = NoRequestConfig
  /\ result = NoResult
  /\ depth = 0
  /\ serial = 0
  /\ calls = MaxCalls + 1
  /\ registrations = MaxMw + 1
  /\ call = NoCall
  /\ obs = NoObs
  /\ prev = NoPrev
  /\ now = 0
  /\ heap = <<>>
  /\ pass = NoPass
  /\ other = <<>>
NextRaise ==
  \/ \E p \in Priorities, k \in {"pass", "throw"} : registerRequestMiddleware(p, k)
  \/ \E p \in Priorities, k \in {"reject", "resolve"} : registerErrorMiddleware(p, k)
  \/ \E r \in FlowRequests : request(r)
  \/ ChainStep
  \/ Complete
SpecRaise == InitRaise /\ [][NextRaise]_vars

\* Registration while a request is in flight: a service without cache, under
\* the retry configuration of ExampleModule, whose middleware loops run turn
\* by turn while middleware is registered on it and on a second service.
RegistryBudget == MaxMw + 2
InitRegistry ==
  /\ httpModuleOptions = [retry |-> RetryExample, cache |-> CacheOff]
  /\ requestMiddlewares = <<>>
  /\ responseMiddlewares = <<>>
  /\ errorMiddlewares = <<>>
  /\ store = EmptyStore
  /\ pc = "idle"
  /\ config = NoRequestConfig
  /\ result = NoResult
  /\ depth = 0
  /\ serial = 0
  /\ calls = MaxCalls
  /\ registrations = RegistryBudget
  /\ call = NoCall
  /\ obs = NoObs
  /\ prev = NoPrev
  /\ now = 0
  /\ heap = <<>>
  /\ pass = NoPass
  /\ other = <<>>
NextRegistry ==
  \/ \E p \in Priorities, k \in {"pass", "throw"} : registerRequestMiddleware(p, k)
  \/ \E p \in Priorities, k \in {"pass", "throw"} : registerInFlight("request", p, k)
  \/ \E k \in {"pass", "throw"} : registerInFlight("response", 0, k)
  \/ registerInFlight("error", 0, "reject")
  \/ registerOnOther(0, "pass")
  \/ request(OrderRequest)
  \/ StartPass
  \/ ProcessMiddleware
  \/ FinishPass
  \/ CacheRequestInterceptor(FALSE)
  \/ \E o \in {"ok", "status"} : DispatchRequest(o, 503)
  \/ RetryResponseInterceptor(TRUE, 0)
  \/ RetryTimer
  \/ CacheResponseInterceptor(FALSE)
  \/ Complete
SpecRegistry == InitRegistry /\ [][NextRegistry]_vars

\* The delays of the retries: every retryDelay option, on a service without
\* cache and without middleware.
InitDelay ==
  /\ httpModuleOptions \in [retry : DelayChoices, cache : {CacheOff}]
  /\ requestMiddlewares = <<>>
  /\ responseMiddlewares = <<>>
  /\ errorMiddlewares = <<>>
  /\ store = EmptyStore
  /\ pc = "idle"
  /\ config = NoRequestConfig
  /\ result = NoResult
  /\ depth = 0
  /\ serial = 0
  /\ calls = MaxCalls
  /\ registrations = MaxMw
  /\ call = NoCall
  /\ obs = NoObs
  /\ prev = NoPrev
  /\ now = 0
  /\ heap = <<>>
  /\ pass = NoPass
  /\ other = <<>>
NextDelay ==
  \/ \E r \in Requests : request(r)
  \/ ChainStep
  \/ Complete
SpecDelay == InitDelay /\ [][NextDelay]_vars

\* ------------------------------------------------ what the claims speak of
\* The retry options leave status codes, methods and predicate at their defaults.
DefaultRetryConfiguration ==
  /\ retryOptions.enabled
  /\ retryOptions.retryCondition = "none"
  /\ ~retryOptions.statusCodesToRetry.set
  /\ ~retryOptions.methodsToRetry.set

\* The retryable methods of the documentation (README, RetryOptions).
DefaultRetryableMethods == {"get", "head", "options", "delete", "put"}

\* The cacheable methods of the configuration (README: methods, default ['get']).
CacheableMethods ==
  IF cacheOptions.methods.set THEN cacheOptions.methods.val ELSE {"get"}

\* Every transport attempt of the call so far failed, the last one retryably
\* (an earlier one was retried, so it was retryable too).
EveryAttemptFailedRetryably ==
  /\ obs.transportCalls > 0
  /\ ~obs.succeeded
  /\ obs.lastError.kind \in {"status", "network", "timeout"}
  /\ \/ retryOptions.retryCondition = "always"
     \/ /\ retryOptions.retryCondition = "none"
        /\ \/ obs.lastError.kind = "network"
           \/ /\ obs.lastError.kind = "status"
              /\ obs.lastError.status \in
                   (IF retryOptions.statusCodesToRetry.set
                    THEN retryOptions.statusCodesToRetry.val
                    ELSE {408, 429, 500, 502, 503, 504})
              /\ call.method \in
                   (IF retryOptions.methodsToRetry.set
                    THEN retryOptions.methodsToRetry.val
                    ELSE DefaultRetryableMethods)

\* A retry of the call found its key in the store (the retried config carries
\* the serialized body) and was answered by the cache instead of the transport.
RetryServedFromCache == obs.transportCalls > 0 /\ config.adapter.set

\* The maximum N of the retry policy: retry.retries, 3 when none is given.
PolicyMaximum == IF retryOptions.retries # 0 THEN retryOptions.retries ELSE 3

\* No registered error middleware changes the error it is given.
ErrorMiddlewareKeepsError ==
  \A i \in 1..Len(errorMiddlewares) : errorMiddlewares[i].kind = "reject"

\* RouteRule.pattern tested against the request path, on the paths of the model.
PatternMatches(pattern, url) ==
  pattern = "/pokemon/.*" /\ url = "/pokemon/25"

\* The first route rule, in registration order, whose pattern matches.
MatchingRules(url) ==
  { i \in 1..Len(cacheOptions.routes) : PatternMatches(cacheOptions.routes[i].pattern, url) }
HasRule(url) == MatchingRules(url) # {}
FirstRule(url) ==
  cacheOptions.routes[CHOOSE i \in MatchingRules(url) : \A j \in MatchingRules(url) : i <= j]

\* The strategy and TTL the documentation gives a request: those of the first
\* matching rule, else the global ones, else cache-first and 60000.
ResolvedStrategy(url) ==
  IF HasRule(url) THEN FirstRule(url).strategy
  ELSE IF cacheOptions.strategy # "unset" THEN cacheOptions.strategy
  ELSE "cache-first"
ResolvedTtl(url) ==
  IF HasRule(url) /\ FirstRule(url).ttl # 0 THEN FirstRule(url).ttl
  ELSE IF cacheOptions.ttl # 0 THEN cacheOptions.ttl
  ELSE 60000

\* The TTL, strategy and retry ceiling the documentation gives a call: the
\* call's own option where it has one, else the route's or the global one.
CallTtl == IF call.cache.ttl # 0 THEN call.cache.ttl ELSE ResolvedTtl(call.url)
CallStrategy ==
  IF call.cache.strategy # "unset" THEN call.cache.strategy
  ELSE ResolvedStrategy(call.url)
CallMaximum ==
  IF call.retry.retries # 0 THEN call.retry.retries
  ELSE IF retryOptions.retries # 0 THEN retryOptions.retries ELSE 3

\* The middleware of a registry that has the given id.
ById(list, id) == list[CHOOSE i \in 1..Len(list) : list[i].id = id]

\* The documented order of a stage (README "Opciones de Middleware"): m runs
\* before n when its priority value is lower, or equal with m registered first.
RunsBefore(m, n) ==
  \/ m.priority < n.priority
  \/ m.priority = n.priority /\ m.id < n.id

\* ids is a pass over the registry in the documented order: each entry once,
\* each before the next, and no entry left out that should run before one of
\* them; complete says that nothing ended the pass early.
PassInOrder(ids, list, complete) ==
  /\ \A i \in 1..Len(ids) : \E j \in 1..Len(list) : list[j].id = ids[i]
  /\ \A i, j \in 1..Len(ids) :
        i < j => RunsBefore(ById(list, ids[i]), ById(list, ids[j]))
  /\ \A j \in 1..Len(list) :
        ( \A i \in 1..Len(ids) : ids[i] # list[j].id )
        => /\ ~complete
           /\ \A i \in 1..Len(ids) : RunsBefore(ById(list, ids[i]), list[j])

\* Two calls are structurally equal: same method, URL, params and body, however
\* the objects of params and body are built.
StructurallyEqual(a, b) ==
  /\ a.method = b.method
  /\ a.url = b.url
  /\ a.params.kind = b.params.kind /\ a.params.text = b.params.text
  /\ a.data.kind = b.data.kind /\ a.data.text = b.data.text

\* The configured predicate accepts the error (RetryOptions.retryCondition).
CustomPredicateAccepts(error) ==
  \/ retryOptions.retryCondition = "always"
  \/ retryOptions.retryCondition = "on404" /\ error.kind = "status" /\ error.status = 404

\* The retryable status codes and methods of the configuration (README,
\* "Opciones de Reintentos").
RetryableStatuses ==
  IF retryOptions.statusCodesToRetry.set
  THEN retryOptions.statusCodesToRetry.val
  ELSE {408, 429, 500, 502, 503, 504}
RetryableMethods ==
  IF retryOptions.methodsToRetry.set
  THEN retryOptions.methodsToRetry.val
  ELSE DefaultRetryableMethods

\* The retry hook is deciding on a failure that carries its request, with
\* retries left.
DecidingOnFailure ==
  /\ pc = "retryResponse"
  /\ ~result.ok
  /\ retryOptions.enabled
  /\ result.error.hasConfig
  /\ config.retryCount < PolicyMaximum

\* The hook's decision on it is to retry.
DecidesToRetry == config'.retryCount = config.retryCount + 1

\* The delay the documentation gives retry k (README, retryDelay: the number,
\* or the value of the function at k; exponentialDelay when none is
\* configured): d is such a delay.
DocumentedDelay(k, d) ==
  CASE retryOptions.retryDelay = "fixed" -> d = 1000
    [] retryOptions.retryDelay = "linear" -> d = k * 1000
    [] OTHER -> (2 ^ k) * 100 <= d /\ d * 10 < (2 ^ k) * 100 * 12

\* A middleware of the registry raises whatever it is given.
Raises(list) == \E i \in 1..Len(list) : list[i].kind = "throw"

\* Every registered error middleware hands on the error it is given.
ErrorMiddlewareHandOn ==
  \A i \in 1..Len(errorMiddlewares) : errorMiddlewares[i].kind \in {"reject", "return"}

\* ids is a pass over the registry that the entry of ids called last ended by
\* raising: the entries before it did not raise, none after it was called.
StageAborted(ids, list, raising) ==
  /\ Len(ids) > 0
  /\ PassInOrder(ids, list, FALSE)
  /\ ById(list, ids[Len(ids)]).kind \in raising
  /\ \A i \in 1..(Len(ids) - 1) : ById(list, ids[i]).kind \notin raising

\* An error that wraps the cause (spec: a new ErrorContext wrapping the cause).
Wrapping(cause) == [cause EXCEPT !.kind = "wrapping"]

\* The kinds of error middleware that end a pass of the error stage: by
\* returning a value that is no error, or by raising.
EndsErrorStage == {"resolve", "resolve404", "wrap", "reject", "void"}

\* The configured shouldCache predicate, if any, accepts the responses of a
\* request to the URL.
ShouldCacheAccepts(url) ==
  \/ cacheOptions.shouldCache = "none"
  \/ cacheOptions.shouldCache = "notList" /\ url # "/pokemon"

\* The request as the request middleware leave it: params set by a middleware
\* of kind params, else those of the call.
ParamsAfterMiddleware ==
  IF \E i \in 1..Len(requestMiddlewares) : requestMiddlewares[i].kind = "params"
  THEN LimitParams
  ELSE call.params

\* The default key of a request without body (line 331).
DefaultKey(method, url, params) ==
  "http-cache:" \o method \o ":" \o url \o ":"
    \o (IF params.kind = "object" THEN params.text ELSE "") \o ":"

\* The transformations the registered response middleware make to a response.
Transformations ==
  Cardinality({ i \in 1..Len(responseMiddlewares) : responseMiddlewares[i].kind = "stamp" })

\* The key the documentation gives a call (line 297: method + url + params +
\* body), for calls without body.
DocumentedKey(c) == DefaultKey(c.method, c.url, c.params)

\* ----------------------------------------------------------------- claims
\* C1 (as claimed): under cache-first and with no middleware registered, a call
\* that repeats the call completed just before it, which succeeded and whose
\* entry has not expired, makes no transport call and is answered from the store.
C1_SecondCallServedFromCache ==
  ( /\ pc = "done"
    /\ cacheOptions.enabled
    /\ cacheOptions.shouldCache = "none"
    /\ ResolvedStrategy(call.url) = "cache-first"
    /\ call.method \in CacheableMethods
    /\ prev.done /\ prev.ok /\ ~prev.evicted /\ ~prev.storeFailed
    /\ prev.call = call
    /\ ~obs.getFailed
    /\ Registered = 0 )
  => /\ obs.transportCalls = 0
     /\ result.ok
     /\ result.response.cached

\* C2 (as claimed): with maximum N and a transport that fails every attempt
\* retryably, the transport is invoked exactly N times.
C2_ExactlyNAttempts ==
  ( /\ pc = "done"
    /\ retryOptions.enabled
    /\ EveryAttemptFailedRetryably
    /\ ~obs.budgetCut
    /\ ~RetryServedFromCache
    /\ ~obs.getFailed )
  => obs.transportCalls = PolicyMaximum

\* C2 (amended): the transport is invoked at most N + 1 times, the first attempt
\* and N retries, and exactly N + 1 times when every attempt fails retryably,
\* the timeout budget of the request does not run out before a retry, and no
\* retry is answered from the cache or ended by a failing read of the store.
C2_RetryCeiling ==
  /\ retryOptions.enabled => obs.transportCalls <= PolicyMaximum + 1
  /\ ~retryOptions.enabled => obs.transportCalls <= 1
  /\ ( /\ pc = "done"
       /\ retryOptions.enabled
       /\ EveryAttemptFailedRetryably
       /\ ~obs.budgetCut
       /\ ~RetryServedFromCache
       /\ ~obs.getFailed )
     => obs.transportCalls = PolicyMaximum + 1

C2_Witness ==
  /\ pc = "done"
  /\ retryOptions.enabled
  /\ retryOptions.retries = 2
  /\ EveryAttemptFailedRetryably
  /\ ~obs.budgetCut
  /\ ~RetryServedFromCache
  /\ ~obs.getFailed
  /\ obs.transportCalls = 3

\* C3: when the transport failed and the retries are exhausted or the failure
\* is not retryable, and no error middleware changes the error, the caller
\* receives the error of the last transport attempt itself.
C3_LastErrorSurfacedUnchanged ==
  ( /\ pc = "done"
    /\ ~result.ok
    /\ obs.transportCalls > 0
    /\ ~obs.getFailed
    /\ ErrorMiddlewareKeepsError )
  => /\ result.error = obs.lastError
     /\ result.error.attempt = obs.transportCalls
     /\ result.error.kind \in {"status", "network", "timeout", "cancelled"}

C3_Witness ==
  /\ pc = "done"
  /\ ~result.ok
  /\ obs.transportCalls = 3
  /\ Len(errorMiddlewares) = 1
  /\ ErrorMiddlewareKeepsError
  /\ result.error = obs.lastError
  /\ result.error.attempt = 3

\* C4: a request whose method is outside the cacheable methods (POST under the
\* default configuration, whatever the strategy) neither reads nor writes the
\* cache store.
C4_UncacheableMethodNeverTouchesStore ==
  ( /\ pc # "idle"
    /\ call.method \notin CacheableMethods )
  => /\ obs.cacheReads = 0
     /\ obs.cacheWrites = 0
     /\ ~config.adapter.set
     /\ ~result.response.cached

C4_Witness ==
  /\ pc = "done"
  /\ cacheOptions.enabled
  /\ ~cacheOptions.methods.set
  /\ cacheOptions.strategy = "side-cache"
  /\ call.method = "post"
  /\ result.ok
  /\ obs.transportCalls = 1
  /\ obs.cacheReads = 0
  /\ obs.cacheWrites = 0

\* C5: under the default retry configuration no attempt of a POST request that
\* failed with an HTTP status is retried: a POST whose first attempt fails
\* with a status has exactly one transport call.
C5_PostStatusNeverRetried ==
  ( /\ pc # "idle"
    /\ DefaultRetryConfiguration
    /\ call.method = "post" )
  => /\ obs.retriedAfter # "status"
     /\ ( obs.lastError.kind = "status" /\ obs.lastError.attempt = 1 )
        => ( obs.transportCalls = 1 /\ depth = 0 /\ config.retryCount = 0 )

C5_Witness ==
  /\ pc = "done"
  /\ DefaultRetryConfiguration
  /\ call.method = "post"
  /\ ~result.ok
  /\ result.error.kind = "status"
  /\ result.error.status = 503
  /\ obs.transportCalls = 1

\* C6 (as claimed): under the default retry configuration a POST or PATCH
\* request has at most one transport attempt, whatever the failure.
C6_UngatedMethodAttemptedOnce ==
  ( /\ pc # "idle"
    /\ DefaultRetryConfiguration
    /\ call.method \in {"post", "patch"} )
  => obs.transportCalls <= 1

\* C6 (amended): under the default retry configuration a request whose method
\* is outside the default retryable methods is retried only after a
\* network-level failure, never after an HTTP status error or a timeout.
C6_UngatedMethodRetriedOnlyAfterNetworkFailure ==
  ( /\ pc # "idle"
    /\ DefaultRetryConfiguration
    /\ call.method \notin DefaultRetryableMethods )
  => /\ obs.retriedAfter \in {"none", "network"}
     /\ obs.transportCalls > 1 => obs.retriedAfter = "network"

C6_Witness ==
  /\ pc = "done"
  /\ DefaultRetryConfiguration
  /\ call.method = "patch"
  /\ obs.retriedAfter = "network"
  /\ obs.transportCalls = 2
  /\ obs.lastError.kind = "status"

\* C7 (as claimed): under side-cache, a call that finds an entry stored for its
\* key still invokes the transport.
C7_SideCacheHitStillInvokesTransport ==
  ( /\ pc = "done"
    /\ cacheOptions.enabled
    /\ ResolvedStrategy(call.url) = "side-cache"
    /\ call.method \in CacheableMethods
    /\ obs.lookup = "hit" )
  => obs.transportCalls >= 1

\* C8 (as claimed): under only-cache, a call whose key is not in the store
\* fails without any transport call.
C8_OnlyCacheMissFailsWithoutTransport ==
  ( /\ pc = "done"
    /\ cacheOptions.enabled
    /\ ResolvedStrategy(call.url) = "only-cache"
    /\ call.method \in CacheableMethods
    /\ obs.lookup = "miss" )
  => /\ obs.transportCalls = 0
     /\ ~result.ok

\* C9 (as claimed): under no-cache a request neither reads nor writes the
\* cache store.
C9_NoCacheNeverTouchesStore ==
  ( /\ pc # "idle"
    /\ cacheOptions.enabled
    /\ ResolvedStrategy(call.url) = "no-cache" )
  => /\ obs.cacheReads = 0
     /\ obs.cacheWrites = 0

\* C10 (as claimed): every response is stored with the TTL of the first route
\* rule that matches its request path, and with the global TTL only when no
\* rule matches.
C10_StoredWithRouteRuleTtl ==
  \A k \in DOMAIN store :
    store[k].ttl = ResolvedTtl(store[k].value.config.url)

\* C11 (as claimed): the cache and retry options of a call decide for that
\* call: what the call stores is stored with the TTL of its cache option, and
\* when every attempt fails retryably the call makes the first attempt and the
\* retries of its retry option.
C11_CallOptionsTakePrecedence ==
  ( /\ pc = "done"
    /\ ~obs.budgetCut
    /\ ~RetryServedFromCache
    /\ ~obs.getFailed )
  => /\ ( call.cache.ttl # 0 /\ obs.cacheWrites > 0 )
        => \E k \in DOMAIN store : store[k].ttl = CallTtl
     /\ ( call.retry.retries # 0 /\ retryOptions.enabled /\ EveryAttemptFailedRetryably )
        => obs.transportCalls = CallMaximum + 1

\* C12 (as claimed): when an error middleware returned a substitute value for a
\* failure of the request, the request ends fulfilled and the caller receives
\* that value.
C12_SubstituteValueReachesCaller ==
  ( /\ pc = "done"
    /\ obs.resolved )
  => /\ result.ok
     /\ result.response = Substitute

\* C13: in every pass of a stage the middleware are called in ascending
\* priority value, entries of equal priority in registration order; a pass
\* that nothing ends early calls every entry of the stage, so every pass over
\* an unchanged registry calls them in one and the same order.
C13_MiddlewareRunInPriorityOrder ==
  /\ ( pc \notin {"idle", "requestMiddleware"} \/ depth > 0 )
     => PassInOrder(obs.ran.request, requestMiddlewares,
                    \A i \in 1..Len(requestMiddlewares) :
                       requestMiddlewares[i].kind = "pass")
  /\ ( pc = "done" /\ result.ok )
     => PassInOrder(obs.ran.response, responseMiddlewares, TRUE)
  /\ ( pc = "done" /\ ~result.ok )
     => PassInOrder(obs.ran.error, errorMiddlewares, TRUE)

C13_Witness ==
  /\ pc = "done"
  /\ Len(requestMiddlewares) = 3
  /\ requestMiddlewares[1].priority = 10
  /\ requestMiddlewares[2].priority = 0
  /\ requestMiddlewares[3].priority = 0
  /\ obs.ran.request = <<2, 3, 1>>
  /\ config.retryCount = 1

\* C14 (as claimed): a failure of the cache store is never the error of the
\* request: after a failed read the request goes on to the transport, and a
\* failed write leaves the response of the transport to the caller.
C14_StoreFailureNeverFailsRequest ==
  /\ ~result.ok => result.error.kind # "store"
  /\ ( pc = "done" /\ obs.getFailed /\ Registered = 0 ) => obs.transportCalls >= 1
  /\ ( pc = "done" /\ obs.setFailed /\ Registered = 0 ) => result.ok

\* C15: once a request has been cancelled no transport attempt is made for it
\* any more, whatever the retry configuration, and, where no error middleware
\* changes the error and the store does not fail, the caller receives the
\* cancellation error of the cancelled attempt.
C15_CancelledNeverReachesTransportAgain ==
  obs.cancelled # "none"
  => /\ obs.lastError.kind = "cancelled"
     /\ obs.lastError.attempt = obs.transportCalls
     /\ ~obs.succeeded
     /\ ( pc = "done" /\ ErrorMiddlewareKeepsError /\ ~obs.getFailed )
        => ( ~result.ok /\ result.error = obs.lastError )

C15_Witness ==
  /\ pc = "done"
  /\ retryOptions.retryCondition = "always"
  /\ obs.cancelled = "aborted"
  /\ obs.retriedAfter = "cancelled"
  /\ config.retryCount = 1
  /\ obs.transportCalls = 1
  /\ ~result.ok
  /\ result.error.kind = "cancelled"

C17_EqualRequestsGetEqualKeys ==
  ( /\ pc # "idle"
    /\ prev.done
    /\ prev.cacheKey # ""
    /\ obs.cacheKey # ""
    /\ cacheOptions.cacheKey = "none"
    /\ StructurallyEqual(prev.call, call) )
  => obs.cacheKey = prev.cacheKey

\* C18 (as claimed): generating the cache key never raises: no request is
\* failed by the key generation of the lookup or of the store step.
C18_KeyGenerationNeverRaises ==
  /\ ~obs.keyRaised
  /\ ( pc = "done" /\ obs.succeeded /\ ~obs.getFailed ) => result.ok

\* C19: with a retryCondition predicate configured, a failure is retried exactly
\* when the predicate accepts it, whatever its status, method or kind.
C19_CustomPredicateAloneDecides ==
  [][ ( DecidingOnFailure /\ retryOptions.retryCondition # "none" )
      => ( DecidesToRetry <=> CustomPredicateAccepts(result.error) ) ]_vars

C19_Witness ==
  /\ pc = "requestMiddleware"
  /\ depth = 1
  /\ retryOptions.retryCondition = "on404"
  /\ call.method = "post"
  /\ obs.retriedAfter = "status"
  /\ obs.lastError.status = 404

C21_DelayIsConfiguredRetryDelay ==
  pc = "retryDelay" => DocumentedDelay(config.retryCount, obs.timer)

C23_ErrorStageShortCircuits ==
  /\ ( pc = "done" /\ obs.resolved /\ ~Raises(responseMiddlewares) )
     => /\ result.ok
        /\ result.response = Substitute
  /\ ( pc = "done" /\ obs.ran.error # <<>> )
     => IF \E i \in 1..Len(errorMiddlewares) : errorMiddlewares[i].kind \in EndsErrorStage
        THEN StageAborted(obs.ran.error, errorMiddlewares, EndsErrorStage)
        ELSE /\ PassInOrder(obs.ran.error, errorMiddlewares, TRUE)
             /\ ~result.ok
             /\ result.error =
                  IF \E i \in 1..Len(errorMiddlewares) : errorMiddlewares[i].kind = "map"
                  THEN MappedError
                  ELSE IF obs.transportCalls > 0 /\ ~obs.succeeded /\ ~obs.getFailed
                       THEN obs.lastError
                       ELSE result.error

\* C24: a response is written to the store only when the method of its request
\* is cacheable and the shouldCache predicate, if any, accepts it; a request
\* whose responses the predicate rejects writes nothing, and the response of
\* its transport still reaches the caller.
C24_RejectedResponseNeverStored ==
  /\ \A k \in DOMAIN store :
        /\ store[k].value.config.method \in CacheableMethods
        /\ ShouldCacheAccepts(store[k].value.config.url)
  /\ ( pc # "idle" /\ obs.cacheWrites > 0 )
     => /\ call.method \in CacheableMethods
        /\ ShouldCacheAccepts(call.url)
  /\ ( pc = "done" /\ ~ShouldCacheAccepts(call.url) /\ obs.succeeded )
     => /\ result.ok
        /\ result.response.data = serial
        /\ obs.cacheWrites = 0

C24_Witness ==
  /\ pc = "done"
  /\ cacheOptions.shouldCache = "notList"
  /\ call.method = "get"
  /\ call.url = "/pokemon"
  /\ obs.cacheReads = 1
  /\ obs.transportCalls = 1
  /\ obs.cacheWrites = 0
  /\ result.ok
  /\ store = EmptyStore

\* C25 (as claimed): the stages of one request run in the order request
\* middleware, cache lookup, transport, response middleware, cache store,
\* caller: the key of the lookup is that of the request as the request
\* middleware left it, and every value in the store is a response after the
\* response middleware were applied to it.
C25_StoredAfterResponseMiddleware ==
  /\ ( pc # "idle" /\ obs.cacheKey # "" )
     => obs.cacheKey = DefaultKey(call.method, call.url, ParamsAfterMiddleware)
  /\ \A k \in DOMAIN store : store[k].value.applied = Transformations
\* C26 (as claimed): one request reads the cache store at most once and writes
\* it at most once, whatever its outcome.
C26_AtMostOneReadAndOneWrite ==
  pc # "idle" => ( obs.cacheReads <= 1 /\ obs.cacheWrites <= 1 )

\* C27 (as claimed): under cache-first a call that is answered from the store
\* makes no write: the store, with the key, value and remaining lifetime of
\* every entry, is as it was before the call.
C27_HitLeavesStoreUnchanged ==
  ( /\ pc = "done"
    /\ cacheOptions.enabled
    /\ ResolvedStrategy(call.url) = "cache-first"
    /\ obs.lookup = "hit" )
  => /\ obs.cacheWrites = 0
     /\ store = obs.storeBefore

\* C29 (as claimed): every entry under a default key holds a response that the
\* transport gave to a call whose own key is that key, so that a call answered
\* from the store receives a response given to a call with its method, URL,
\* params and body.
C29_EntryBelongsToItsKey ==
  /\ \A k \in DOMAIN store : k = DocumentedKey(store[k].value.origin)
  /\ ( pc = "done" /\ result.ok /\ result.response.cached )
     => StructurallyEqual(result.response.origin, call)

\* C30 (as claimed): a response answered from the store was given by the
\* transport no longer than the TTL before the call, however often the entry
\* was hit in between.
C30_HitNoOlderThanTtl ==
  ( pc = "done" /\ result.ok /\ result.response.cached )
  => now - result.response.fetched <= ResolvedTtl(call.url)

\* ---------------------------------------------------------------- C28
\* The data object an entry of the store holds.
Held(k) == store[k].value.obj

\* C28: the value held in a cache entry is an independent snapshot of the
\* response: whatever response middleware or the caller did to the responses
\* earlier calls returned, every entry holds, and every hit is served, the
\* data as the transport gave it.
C28_EntryIsIndependentSnapshot ==
  /\ \A k \in DOMAIN store : Held(k) \in DOMAIN heap /\ ~heap[Held(k)]
  /\ ( pc = "dispatch" /\ config.adapter.set ) =>
       ( /\ config.adapter.response.obj \in DOMAIN heap
         /\ ~heap[config.adapter.response.obj] )

\* ---------------------------------------------------------------- C31
\* C31: per logical request the response middleware is applied exactly once
\* to the response returned to the caller, and the error middleware at most
\* once, whatever the number of retries that came before.
C31_MiddlewareAppliedOncePerRequest ==
  pc = "done" =>
    /\ ( result.ok /\ ~obs.resolved ) => obs.passes.response = 1
    /\ obs.passes.error <= 1

\* ---------------------------------------------------------------- C35
\* Two calls alike in method, URL, params and body, with different headers.
DifferOnlyInHeaders(a, b) == StructurallyEqual(a, b) /\ a.headers # b.headers

\* A call is answered from the store with a response fetched for a call that
\* carried other headers.
ServedAcrossHeaders ==
  /\ pc = "dispatch"
  /\ config.adapter.set
  /\ DifferOnlyInHeaders(config.adapter.response.origin, call)

\* C35 (as claimed): a response cached for a request carrying one set of
\* headers is never served to a request that differs from it only in its
\* headers.
C35_NoHitAcrossHeaders == ~ServedAcrossHeaders

\* C35 (amended): the headers are no part of the cache key: two calls that
\* differ only in their headers are looked up under the same key.
C35_HeadersNotInKey ==
  ( /\ prev.done /\ prev.cacheKey # "" /\ obs.cacheKey # ""
    /\ DifferOnlyInHeaders(prev.call, call) )
  => obs.cacheKey = prev.cacheKey

\* A call that differs from the one before it only in its headers is served
\* the response that call stored.
C35_Witness ==
  /\ ServedAcrossHeaders
  /\ prev.done /\ DifferOnlyInHeaders(prev.call, call)
  /\ obs.cacheKey = prev.cacheKey

\* ---------------------------------------------------------------- C33
\* C33: a failed request is reported to the caller as a success only when an
\* error middleware supplied a substitute response: one that returns nothing,
\* rethrows or rejects never makes the failure a success, and with no error
\* middleware registered every failure is rejected.
C33_SuccessOnlyBySubstitute ==
  ( pc = "done" /\ obs.transportCalls > 0 /\ ~obs.succeeded )
  => /\ result.ok =>
          /\ result.response = Substitute
          /\ \E i \in 1..Len(errorMiddlewares) : errorMiddlewares[i].kind = "resolve"
     /\ errorMiddlewares = <<>> => ~result.ok

\* ---------------------------------------------------------------- C34
\* The request stage of the call in flight has run and one of the request
\* middleware raised.
RequestStageRaised == obs.passes.request > 0 /\ Raises(requestMiddlewares)

\* C34: a request whose request middleware raises never reaches the
\* transport and neither reads nor writes the store; its failure goes through
\* the error middleware and, unless resolved there, is rejected to the caller.
C34_RaisingRequestStopsBeforeCacheAndTransport ==
  /\ RequestStageRaised =>
       /\ obs.transportCalls = 0
       /\ obs.cacheReads = 0 /\ obs.cacheWrites = 0
       /\ store = obs.storeBefore
       /\ pc \in {"retryResponse", "errorMiddleware", "done"}
  /\ ( pc = "done" /\ RequestStageRaised ) =>
       /\ obs.passes.error = 1
       /\ result.ok = obs.resolved
       /\ ~result.ok => result.error = MiddlewareError

\* A call whose entry is in the store ends rejected by its request middleware.
C34_Witness ==
  /\ pc = "done"
  /\ RequestStageRaised
  /\ ~result.ok
  /\ DocumentedKey(call) \in DOMAIN store

\* ---------------------------------------------------------------- C32
\* The ids of the entries of a list, in its order.
Ids(list) == [i \in 1..Len(list) |-> list[i].id]

\* The entries of the registry of the running pass that were registered before
\* the pass started, in the order the pass is to call them.
RegisteredBefore ==
  sortedMiddlewares(SelectSeq(Registry(pass.stage), LAMBDA m : m.id <= pass.watermark))

\* An entry was registered on the registry of the running pass after the pass
\* started.
RegisteredDuringPass ==
  \E i \in 1..Len(Registry(pass.stage)) : Registry(pass.stage)[i].id > pass.watermark

\* The kinds whose process() ends the pass it is called in: one that raises
\* or, in the error stage, resolves.
EndingKinds == IF pass.stage = "error" THEN EndsErrorStage ELSE {"throw"}

\* The registries only grow and keep the order of the registrations, and a
\* registration on one service adds an entry to that service only.
RegistriesAppendOnly ==
  /\ \A g \in {"request", "response", "error"} :
       \A i, j \in 1..Len(Registry(g)) : i < j => Registry(g)[i].id < Registry(g)[j].id
  /\ Registered + Len(other) + registrations = RegistryBudget

\* C32 (as claimed): an entry registered during a pass is not invoked in that
\* pass, and every pass invokes every entry registered before it started.
C32_EveryLaterPassInvokesTheEntry ==
  /\ RegistriesAppendOnly
  /\ ( pass # NoPass /\ PassEnded ) => pass.invoked = Ids(RegisteredBefore)

\* C32 (amended): the registries only grow and those of two services are
\* independent; a pass calls, in sorted order, entries registered before it
\* started and no other, and calls all of them unless one of them ends the
\* pass.
C32_PassRunsOverSnapshot ==
  /\ RegistriesAppendOnly
  /\ pass # NoPass =>
       /\ Len(pass.invoked) <= Len(RegisteredBefore)
       /\ pass.invoked = SubSeq(Ids(RegisteredBefore), 1, Len(pass.invoked))
  /\ ( /\ pass # NoPass /\ PassEnded
       /\ \A i \in 1..Len(RegisteredBefore) : RegisteredBefore[i].kind \notin EndingKinds )
     => pass.invoked = Ids(RegisteredBefore)

\* A pass that called its entry has ended while another entry was registered
\* on its registry, and one on the second service.
C32_Witness ==
  /\ pass # NoPass /\ PassEnded
  /\ pass.invoked # <<>>
  /\ RegisteredDuringPass
  /\ other # <<>>

====
